---- MODULE Spec2Model ----
(***************************************************************************)
(* A model of rustract: the DDL parser (db.rs), the field validation       *)
(* engine (field.rs, types.rs) and the table validator (table.rs).         *)
(*                                                                         *)
(* Representation.                                                         *)
(*   - Option<T>: None is <<>>, Some(x) is <<x>>.                          *)
(*   - A Rust String / &str is a sequence of characters; a character is a *)
(*     one-letter TLA+ string, or the name of a non-ASCII code point       *)
(*     ("U+00E9", "U+20AC") whose UTF-8 encoding is longer than one byte;  *)
(*     the backtick, which a TLA+ string cannot hold, is "U+0060".        *)
(*   - A 64-bit integer is a little-endian sequence of four 16-bit limbs   *)
(*     (two's complement when signed); u32/i32 are two limbs, u16/i16 one  *)
(*     limb, u8 one limb below 256.  Narrowing casts therefore keep their  *)
(*     width: truncation is dropping the high limbs.                       *)
(***************************************************************************)
EXTENDS Integers, Sequences, FiniteSets, TLC

VARIABLES
    \* FieldDesign::extract
    field,      \* the FieldDesign extract is called on
    json,       \* the serde_json::Value handed to it
    result,     \* what extract returned, once it has
    epc,        \* "idle" | "call" | "done"
    \* TableDesign::test
    table,      \* the TableDesign (title, fields: BTreeMap)
    payload,    \* fields: &[Value]
    input,      \* the `input` flag
    keys,       \* the keys self.fields.keys() has still to visit
    visited,    \* for each field visited: what the loop body did
    tresult,    \* what test returned, once it has
    tpc,        \* "idle" | "loop" | "done"
    \* Database::from_schema
    line,       \* the line of the schema the for loop read last
    lineno,     \* the number of lines the for loop has read
    reading,    \* let mut reading
    db,         \* let mut db: the tables map
    table_title,\* let mut table_title
    outcomes,   \* per line read: how the loop body ended on it
    lines_read, \* the lines read, while they are the beginning of a scenario
    presult,    \* what from_schema returned (or "Panic"), once it has
    ppc,        \* "idle" | "loop" | "done"
    \* Database::export
    exported,   \* the Database export is called on
    can_write,  \* the titles of the tables whose file std::fs::write can write
    tables_left,\* the tables self.tables.values() has still to visit
    files,      \* the files written: table title -> the lines of the file
    exports,    \* per table visited: its title and what its export returned
    err_message,\* let mut err_message
    xresult,    \* what export returned, once it has
    xpc,        \* "idle" | "loop" | "done"
    \* unwrap_str
    utoken,     \* the token unwrap_str is called on
    uresult,    \* what unwrap_str returned (or its panic), once it has
    upc         \* "idle" | "call" | "done"

evars == <<field, json, result, epc>>
tvars == <<table, payload, input, keys, visited, tresult, tpc>>
pvars == <<line, lineno, reading, db, table_title, outcomes, lines_read,
           presult,
           ppc>>
xvars == <<exported, can_write, tables_left, files, exports, err_message,
           xresult, xpc>>
uvars == <<utoken, uresult, upc>>
vars == <<evars, tvars, pvars, xvars, uvars>>

----------------------------------------------------------------------------
(* Bounds of the model *)

\* the largest `characters` limit a field is given
MaxChars == 3
\* the longest JSON string (in characters)
MaxStrLen == 3
\* the largest number of labels of an enum_set
MaxEnum == 8

----------------------------------------------------------------------------
(* Option, Result *)

None == <<>>
Some(x) == <<x>>
IsSome(o) == o # <<>>
IsNone(o) == o = <<>>
Unwrap(o) == o[1]

Ok(v) == [ok |-> TRUE, val |-> v]
Err(e) == [ok |-> FALSE, err |-> e]

----------------------------------------------------------------------------
(* Characters and strings *)

UpperChars == <<"A","B","C","D","E","F","G","H","I","J","K","L","M",
                "N","O","P","Q","R","S","T","U","V","W","X","Y","Z">>
LowerChars == <<"a","b","c","d","e","f","g","h","i","j","k","l","m",
                "n","o","p","q","r","s","t","u","v","w","x","y","z">>

\* char::to_ascii_lowercase
ToLowerChar(c) ==
    IF \E i \in 1..26 : UpperChars[i] = c
    THEN LowerChars[CHOOSE i \in 1..26 : UpperChars[i] = c]
    ELSE c

\* str::to_ascii_lowercase
ToAsciiLowercase(s) == [i \in 1..Len(s) |-> ToLowerChar(s[i])]

\* the number of bytes of the UTF-8 encoding of a character
Utf8Len(c) ==
    CASE c = "U+00E9" -> 2
      [] c = "U+20AC" -> 3
      [] OTHER -> 1

RECURSIVE ByteLen(_)
\* String::len(): the length in bytes, not in characters
ByteLen(s) == IF s = <<>> THEN 0 ELSE Utf8Len(Head(s)) + ByteLen(Tail(s))

\* the number of characters of a string (s.chars().count())
CharLen(s) == Len(s)

----------------------------------------------------------------------------
(* Fixed-width integers as 16-bit limbs *)

Base == 2^16
Half == 2^15

U64Of(n) == <<n % Base, (n \div Base) % Base, 0, 0>>

RECURSIVE AddOne(_)
AddOne(w) ==
    IF w = <<>> THEN <<>>
    ELSE IF Head(w) = Base - 1 THEN <<0>> \o AddOne(Tail(w))
    ELSE <<Head(w) + 1>> \o Tail(w)

\* two's complement negation
Negate(w) == AddOne([i \in 1..Len(w) |-> Base - 1 - w[i]])

I64Of(n) == IF n >= 0 THEN U64Of(n) ELSE Negate(U64Of(-n))

IsNegative(w) == w[Len(w)] >= Half

\* unsigned <
LtU(a, b) ==
    \E i \in 1..Len(a) : a[i] < b[i] /\ \A j \in (i+1)..Len(a) : a[j] = b[j]

\* signed <
LtS(a, b) ==
    IF IsNegative(a) # IsNegative(b) THEN IsNegative(a) ELSE LtU(a, b)

U8_MAX  == <<255, 0, 0, 0>>
U16_MAX == <<Base - 1, 0, 0, 0>>
U32_MAX == <<Base - 1, Base - 1, 0, 0>>
I16_MAX == <<Half - 1, 0, 0, 0>>
I16_MIN == <<Half, Base - 1, Base - 1, Base - 1>>
I32_MAX == <<Base - 1, Half - 1, 0, 0>>
I32_MIN == <<0, Half, Base - 1, Base - 1>>
I64_MAX == <<Base - 1, Base - 1, Base - 1, Half - 1>>

\* `value as T`: the truncating cast to a type of `limbs` limbs (u8: one limb
\* reduced modulo 256)
Truncate(w, limbs, byte) ==
    IF byte THEN <<w[1] % 256>> ELSE SubSeq(w, 1, limbs)

\* the numeric types a field can hold: how many limbs, signed or not
IntTypes == {"Signed64", "Unsigned64", "Signed32", "Unsigned32",
             "Signed16", "Unsigned16", "Byte"}
Limbs(t) ==
    CASE t \in {"Signed64", "Unsigned64"} -> 4
      [] t \in {"Signed32", "Unsigned32", "Enum"} -> 2
      [] OTHER -> 1
IsSigned(t) == t \in {"Signed64", "Signed32", "Signed16"}
IsByte(t) == t \in {"Byte", "Bit", "ByteString"}

\* T::try_from(value): the checked narrowing of the standard library,
\* `if value < MIN || value > MAX { Err } else { Ok(value as T) }`
TryInto(w, t) ==
    LET min == CASE t = "Signed32" -> I32_MIN
                 [] t = "Signed16" -> I16_MIN
                 [] OTHER -> <<0, 0, 0, 0>>
        max == CASE t = "Signed32" -> I32_MAX
                 [] t = "Signed16" -> I16_MAX
                 [] t \in {"Unsigned32", "Enum"} -> U32_MAX
                 [] t = "Unsigned16" -> U16_MAX
                 [] OTHER -> U8_MAX
        out == IF IsSigned(t) THEN LtS(w, min) \/ LtS(max, w) ELSE LtU(max, w)
    IN  IF out THEN None ELSE Some(Truncate(w, Limbs(t), IsByte(t)))

RECURSIVE Div10From(_, _, _)
\* limbs 1..i of w / 10, by long division from the top limb
Div10From(w, i, rem) ==
    IF i = 0 THEN <<>>
    ELSE LET cur == rem * Base + w[i]
         IN  Append(Div10From(w, i - 1, cur % 10), cur \div 10)

\* i /= ten (used on positive values only)
Div10(w) == Div10From(w, Len(w), 0)

IsZero(w) == \A i \in 1..Len(w) : w[i] = 0

\* a digits() that counts the digits of the magnitude and gives 0 one digit
RECURSIVE digitsOfMagnitude(_, _)
digitsOfMagnitude(w, signed) ==
    LET m == IF signed /\ IsNegative(w) THEN Negate(w) ELSE w
        d == Div10(m)
    IN  IF IsZero(d) THEN 1 ELSE 1 + digitsOfMagnitude(d, FALSE)

RECURSIVE digits(_, _)
\* digits(num): while i > zero { i /= ten; len += 1 }
digits(w, signed) ==
    IF IsZero(w) \/ (signed /\ IsNegative(w)) THEN 0
    ELSE 1 + digits(Div10(w), signed)

----------------------------------------------------------------------------
(* serde_json::Value *)

JNull == [k |-> "Null"]
JBool(b) == [k |-> "Bool", b |-> b]
\* Number is N::PosInt(u64) | N::NegInt(i64) | N::Float(f64)
JPos(w) == [k |-> "Number", n |-> [t |-> "PosInt", w |-> w]]
JNeg(w) == [k |-> "Number", n |-> [t |-> "NegInt", w |-> w]]
JFloat(len) == [k |-> "Number", n |-> [t |-> "Float", len |-> len]]
JStr(s) == [k |-> "String", s |-> s]
JArr(a) == [k |-> "Array", a |-> a]
JObj(o) == [k |-> "Object", o |-> o]
\* json!(n) for an integer n
JInt(n) == IF n >= 0 THEN JPos(U64Of(n)) ELSE JNeg(I64Of(n))

\* Value::as_str
AsStr(j) == IF j.k = "String" THEN Some(j.s) ELSE None
\* Value::as_array
AsArray(j) == IF j.k = "Array" THEN Some(j.a) ELSE None
\* Value::as_object
AsObject(j) == IF j.k = "Object" THEN Some(j.o) ELSE None
\* Value::as_bool
AsBool(j) == IF j.k = "Bool" THEN Some(j.b) ELSE None
\* Value::as_u64: only a non-negative integer
AsU64(j) ==
    IF j.k = "Number" /\ j.n.t = "PosInt" THEN Some(j.n.w) ELSE None
\* Value::as_i64: a negative integer, or a non-negative one up to i64::MAX
AsI64(j) ==
    IF j.k # "Number" THEN None
    ELSE IF j.n.t = "NegInt" THEN Some(j.n.w)
    ELSE IF j.n.t = "PosInt" /\ ~LtU(I64_MAX, j.n.w) THEN Some(j.n.w)
    ELSE None
\* Value::as_f64: every number
AsF64(j) == IF j.k = "Number" THEN Some(j.n) ELSE None
\* Value::get(key): the member of an object, None for any other value
Get(j, key) ==
    IF j.k = "Object" /\ key \in DOMAIN j.o THEN Some(j.o[key]) ELSE None

----------------------------------------------------------------------------
(* FieldDesign *)

DataTypes == {"String", "ByteString", "Json", "Signed64", "Unsigned64",
              "Signed32", "Unsigned32", "Signed16", "Unsigned16", "Float64",
              "Float32", "Boolean", "Bit", "Byte", "Enum", "Set"}

\* FieldDesign::new(title)
FieldDesignNew(title) ==
    [field_design_title |-> title, datatype |-> "String", bytes |-> None,
     characters |-> None, decimals |-> None, regex |-> None,
     primary |-> FALSE, unique |-> FALSE, required |-> FALSE,
     foreign |-> None, increment |-> FALSE, generated |-> FALSE,
     enum_set |-> None, set |-> None]

\* a RustractError: its kind, and the field title and the datatype its
\* message names (None when the message does not name it)
Error(kind, title, datatype) ==
    [kind |-> kind, title |-> title, datatype |-> datatype]

\* DataTypeValue::<tag>(v)
Value(tag, v) == [tag |-> tag, v |-> v]

\* test_type: unwraps the Option of the serde cast
test_type(f, o) ==
    IF IsSome(o) THEN Ok(Unwrap(o))
    ELSE Err(Error("cast", Some(f.field_design_title), Some(f.datatype)))

\* impl HasLength for String: self.len()
StringLength(s) == ByteLen(s)

\* impl HasBytes for String: self.len()
StringByteLength(s) == ByteLen(s)

\* impl HasLength for the integer types: digits(self)
IntLength(w, signed) == digits(w, signed)

\* impl HasLength for f64 and f32
FloatLength(n) ==
    IF n.t = "Float" THEN n.len ELSE digits(n.w, n.t = "NegInt")

\* test_length, given value.length()
test_length(f, len) ==
    IF IsSome(f.characters) /\ len > Unwrap(f.characters)
    THEN Err(Error("length", Some(f.field_design_title), None))
    ELSE Ok(<<>>)

\* test_byte_length, given value.byte_length()
test_byte_length(f, len) ==
    IF IsSome(f.bytes) /\ len > Unwrap(f.bytes)
    THEN Err(Error("byte_length", Some(f.field_design_title), None))
    ELSE Ok(<<>>)

\* a downsize that casts with `as` instead of try_into
downsizeWrapping(f, w, t) == Ok(Truncate(w, Limbs(t), IsByte(t)))

\* downsize::<T, E>(value): value.try_into()
downsize(f, w, t) ==
    LET r == TryInto(w, t)
    IN  IF IsSome(r) THEN Ok(Unwrap(r))
        ELSE Err(Error("downsize", Some(f.field_design_title),
                       Some(f.datatype)))

\* Regex::new(pattern), for patterns made of literal characters, a leading
\* "^", a trailing "$" and (never closed, so never compiling) "("
RegexNew(p) ==
    IF \E i \in 1..Len(p) : p[i] = "(" THEN None
    ELSE LET st == Len(p) >= 1 /\ p[1] = "^"
             en == Len(p) >= 1 /\ p[Len(p)] = "$" /\ ~(Len(p) = 1 /\ st)
             lo == IF st THEN 2 ELSE 1
             hi == IF en THEN Len(p) - 1 ELSE Len(p)
         IN  Some([start |-> st, lit |-> SubSeq(p, lo, hi), end |-> en])

\* the whole of the text is the match of the pattern
IsFullMatch(re, s) == s = re.lit

\* Regex::is_match(text): a match anywhere in the text
IsMatch(re, s) ==
    \E i \in 0..Len(s) :
        /\ i + Len(re.lit) <= Len(s)
        /\ SubSeq(s, i + 1, i + Len(re.lit)) = re.lit
        /\ re.start => i = 0
        /\ re.end => i + Len(re.lit) = Len(s)

\* test_regex
test_regex(f, s) ==
    IF IsNone(f.regex) THEN Ok(<<>>)
    ELSE LET re == RegexNew(Unwrap(f.regex))
         IN  IF IsNone(re) THEN Err(Error("regex_compile", None, None))
             ELSE IF ~IsMatch(Unwrap(re), s)
             THEN Err(Error("regex", Some(f.field_design_title), None))
             ELSE Ok(<<>>)

----------------------------------------------------------------------------
(* FieldDesign::extract *)

\* the integer arms: test_type(json.as_i64() / as_u64()), downsize for the
\* widths below 64 bits, test_length
ExtractInt(f, j) ==
    LET t == f.datatype
        c == test_type(f, IF IsSigned(t) THEN AsI64(j) ELSE AsU64(j))
        d == IF Limbs(t) = 4 THEN c ELSE downsize(f, c.val, t)
        l == test_length(f, IntLength(d.val, IsSigned(t)))
    IN  IF ~c.ok THEN c
        ELSE IF ~d.ok THEN d
        ELSE IF ~l.ok THEN l
        ELSE Ok(Value(t, d.val))

\* DataType::String
ExtractString(f, j) ==
    LET c == test_type(f, AsStr(j))
        l == test_length(f, StringLength(c.val))
        b == test_byte_length(f, StringByteLength(c.val))
        r == test_regex(f, c.val)
    IN  IF ~c.ok THEN c
        ELSE IF ~l.ok THEN l
        ELSE IF ~b.ok THEN b
        ELSE IF ~r.ok THEN r
        ELSE Ok(Value("String", c.val))

RECURSIVE ExtractBytes(_, _)
\* the loop of the ByteString arm: the bytes, or the first error
ExtractBytes(f, a) ==
    IF a = <<>> THEN Ok(<<>>)
    ELSE LET c == test_type(f, AsU64(Head(a)))
             d == downsize(f, c.val, "ByteString")
             rest == ExtractBytes(f, Tail(a))
         IN  IF ~c.ok THEN c
             ELSE IF ~d.ok THEN d
             ELSE IF ~rest.ok THEN rest
             ELSE Ok(<<d.val>> \o rest.val)

\* DataType::ByteString
ExtractByteString(f, j) ==
    LET c == test_type(f, AsArray(j))
        bs == ExtractBytes(f, c.val)
    IN  IF ~c.ok THEN c
        ELSE IF ~bs.ok THEN bs
        ELSE IF IsSome(f.bytes) /\ Len(bs.val) > Unwrap(f.bytes)
        THEN Err(Error("bytestring_length", Some(f.field_design_title), None))
        ELSE Ok(Value("ByteString", bs.val))

\* DataType::Json
ExtractJson(f, j) ==
    LET c == test_type(f, AsObject(j))
    IN  IF ~c.ok THEN c ELSE Ok(Value("Json", c.val))

\* DataType::Float64 and DataType::Float32
ExtractFloat(f, j) ==
    LET c == test_type(f, AsF64(j))
        l == test_length(f, FloatLength(c.val))
    IN  IF ~c.ok THEN c
        ELSE IF ~l.ok THEN l
        ELSE Ok(Value(f.datatype, c.val))

\* DataType::Boolean
ExtractBoolean(f, j) ==
    LET c == test_type(f, AsBool(j))
    IN  IF ~c.ok THEN c ELSE Ok(Value("Boolean", c.val))

\* DataType::Bit
ExtractBit(f, j) ==
    LET c == test_type(f, AsU64(j))
        size == digits(c.val, FALSE)
        d == downsize(f, c.val, "Bit")
    IN  IF ~c.ok THEN c
        ELSE IF size > 1
        THEN Err(Error("bit_size", Some(f.field_design_title), None))
        ELSE IF ~d.ok THEN d
        ELSE Ok(Value("Bit", d.val))

\* an enum arm that accepts the index len(enum_set) as well
ExtractEnumInclusive(f, j) ==
    LET c == test_type(f, AsU64(j))
        d == downsize(f, c.val, "Enum")
    IN  IF ~c.ok THEN c
        ELSE IF ~d.ok THEN d
        ELSE IF IsNone(f.enum_set) THEN Err(Error("no_enum", None, None))
        ELSE IF ~LtU(SubSeq(U64Of(Len(Unwrap(f.enum_set))), 1, 2), d.val)
        THEN Ok(Value("Enum", d.val))
        ELSE Err(Error("enum_range", None, None))

\* an enum arm that takes a missing enum_set for an unbounded one
ExtractEnumLenient(f, j) ==
    LET c == test_type(f, AsU64(j))
        d == downsize(f, c.val, "Enum")
    IN  IF ~c.ok THEN c
        ELSE IF ~d.ok THEN d
        ELSE IF IsNone(f.enum_set) THEN Ok(Value("Enum", d.val))
        ELSE IF LtU(d.val, SubSeq(U64Of(Len(Unwrap(f.enum_set))), 1, 2))
        THEN Ok(Value("Enum", d.val))
        ELSE Err(Error("enum_range", None, None))

\* DataType::Enum
ExtractEnum(f, j) ==
    LET c == test_type(f, AsU64(j))
        d == downsize(f, c.val, "Enum")
    IN  IF ~c.ok THEN c
        ELSE IF ~d.ok THEN d
        ELSE IF IsNone(f.enum_set) THEN Err(Error("no_enum", None, None))
        ELSE IF LtU(d.val, SubSeq(U64Of(Len(Unwrap(f.enum_set))), 1, 2))
        THEN Ok(Value("Enum", d.val))
        ELSE Err(Error("enum_range", None, None))

\* DataType::Set
ExtractSet(f, j) ==
    LET c == test_type(f, AsStr(j))
        s == ToAsciiLowercase(c.val)
    IN  IF ~c.ok THEN c
        ELSE IF IsNone(f.set) THEN Err(Error("no_set", None, None))
        ELSE IF s \in Unwrap(f.set) THEN Ok(Value("Set", s))
        ELSE Err(Error("not_in_set", None, None))

\* FieldDesign::extract: match self.datatype
extract(f, j) ==
    CASE f.datatype = "String" -> ExtractString(f, j)
      [] f.datatype = "ByteString" -> ExtractByteString(f, j)
      [] f.datatype = "Json" -> ExtractJson(f, j)
      [] f.datatype \in IntTypes -> ExtractInt(f, j)
      [] f.datatype \in {"Float64", "Float32"} -> ExtractFloat(f, j)
      [] f.datatype = "Boolean" -> ExtractBoolean(f, j)
      [] f.datatype = "Bit" -> ExtractBit(f, j)
      [] f.datatype = "Enum" -> ExtractEnum(f, j)
      [] f.datatype = "Set" -> ExtractSet(f, j)

----------------------------------------------------------------------------
(* The inputs of FieldDesign::extract *)

DigitChars == <<"0","1","2","3","4","5","6","7","8","9">>

\* the characters JSON strings are made of: two ASCII letters (one upper
\* case) and one two-byte code point
StrAlphabet == {"a", "B", "U+00E9"}

StringsUpTo(n) == UNION {[1..k -> StrAlphabet] : k \in 0..n}

\* JSON integers: the small ones, and the ones around each width's limits
JsonNats == (0..12) \cup {99, 100, 127, 128, 255, 256, 999, 1000, 12345,
                          32767, 32768, 65535, 65536, 70000, 2147483647}
JsonNegs == {-1, -2, -9, -10, -100, -128, -129, -12345, -32768, -32769,
             -70000, -2147483647}
JsonBig == {JPos(<<0, Half, 0, 0>>),                     \* 2^31
            JPos(<<Base - 1, Base - 1, 0, 0>>),          \* 2^32 - 1
            JPos(<<0, 0, 1, 0>>),                        \* 2^32
            JPos(<<4464, 1, 1, 0>>),                     \* 2^32 + 70000
            JPos(I64_MAX),                               \* 2^63 - 1
            JPos(<<0, 0, 0, Half>>),                     \* 2^63
            JPos(<<Base - 1, Base - 1, Base - 1, Base - 1>>),
            JNeg(I32_MIN),                               \* -2^31
            JNeg(<<Base - 1, Half - 1, Base - 1, Base - 1>>), \* -2^31 - 1
            JNeg(<<0, 0, 0, Half>>)}                     \* i64::MIN
JsonInts == {JInt(n) : n \in JsonNats \cup JsonNegs} \cup JsonBig

JsonOthers ==
    {JNull, JBool(TRUE), JBool(FALSE), JFloat(1), JFloat(5),
     JArr(<<>>), JArr(<<JInt(0)>>), JArr(<<JInt(255), JInt(1)>>),
     JArr(<<JInt(1), JInt(256)>>), JArr(<<JStr(<<"a">>)>>),
     JObj(<<>>), JObj([key \in {<<"a">>} |-> JInt(1)])}

JsonValues ==
    JsonInts \cup {JStr(str) : str \in StringsUpTo(MaxStrLen)} \cup JsonOthers

CharOpts == {None} \cup {Some(n) : n \in 0..MaxChars}

RegexOpts == {None, Some(<<"a">>), Some(<<"^", "a">>), Some(<<"a", "$">>),
              Some(<<"^", "a", "B", "$">>), Some(<<"B", "a">>),
              Some(<<"(", "a">>)}

\* the enum_set of k labels v1 .. vk
Labels(k) == [i \in 1..k |-> <<"v", DigitChars[i + 1]>>]

ExtractFields ==
    LET f == FieldDesignNew(<<"f">>)
    IN  {[f EXCEPT !.datatype = t, !.characters = c] :
            t \in IntTypes, c \in CharOpts}
        \cup {[f EXCEPT !.characters = c, !.bytes = b, !.regex = r] :
            c \in CharOpts, b \in {None, Some(2)}, r \in RegexOpts}
        \cup {[f EXCEPT !.datatype = "Enum", !.enum_set = e] :
            e \in {None} \cup {Some(Labels(k)) : k \in 0..MaxEnum}}
        \cup {[f EXCEPT !.datatype = "Set", !.set = st] :
            st \in {None, Some({<<"a">>, <<"a", "b">>})}}
        \cup {[f EXCEPT !.datatype = "ByteString", !.bytes = b] :
            b \in {None, Some(1)}}
        \cup {[f EXCEPT !.datatype = t, !.characters = c] :
            t \in {"Float64", "Float32"}, c \in {None, Some(1)}}
        \cup {[f EXCEPT !.datatype = t] : t \in {"Json", "Boolean", "Bit"}}

----------------------------------------------------------------------------
(* The specification of a call of FieldDesign::extract *)

IdleExtract ==
    /\ field = None /\ json = None /\ result = None /\ epc = "idle"
IdleTable ==
    /\ table = None /\ payload = None /\ input = FALSE /\ keys = <<>>
    /\ visited = <<>> /\ tresult = None /\ tpc = "idle"
IdleExport ==
    /\ exported = None /\ can_write = {} /\ tables_left = <<>>
    /\ files = <<>> /\ exports = <<>> /\ err_message = None
    /\ xresult = None /\ xpc = "idle"
IdleUnwrap ==
    /\ utoken = None /\ uresult = None /\ upc = "idle"
IdleParse ==
    /\ line = None /\ lineno = 0 /\ reading = FALSE /\ db = <<>>
    /\ table_title = <<>> /\ outcomes = <<>> /\ presult = None
    /\ lines_read = None
    /\ ppc = "idle"

InitExtract ==
    /\ field \in ExtractFields
    /\ json \in JsonValues
    /\ result = None
    /\ epc = "call"
    /\ IdleTable /\ IdleParse /\ IdleExport /\ IdleUnwrap

\* field.extract(&json)
Extract ==
    /\ epc = "call"
    /\ result' = Some(extract(field, json))
    /\ epc' = "done"
    /\ UNCHANGED <<field, json, tvars, pvars, xvars, uvars>>

NextExtract == Extract

SpecExtract == InitExtract /\ [][NextExtract]_vars

----------------------------------------------------------------------------
(* BTreeMap<String, V>: a function on its keys, iterated in the order of    *)
(* String's Ord (byte-wise lexicographic)                                   *)

\* the ASCII characters the model uses, in the order of their codes
AsciiOrder == <<" ", "(", ")", ",", "-",
                "0","1","2","3","4","5","6","7","8","9", ";",
                "A","B","C","D","E","F","G","H","I","J","K","L","M",
                "N","O","P","Q","R","S","T","U","V","W","X","Y","Z",
                "_", "U+0060",
                "a","b","c","d","e","f","g","h","i","j","k","l","m",
                "n","o","p","q","r","s","t","u","v","w","x","y","z">>

CharRank(c) ==
    IF \E i \in 1..Len(AsciiOrder) : AsciiOrder[i] = c
    THEN CHOOSE i \in 1..Len(AsciiOrder) : AsciiOrder[i] = c
    ELSE Len(AsciiOrder) + 1

\* a < b for Strings
StrLess(a, b) ==
    \/ Len(a) < Len(b) /\ a = SubSeq(b, 1, Len(a))
    \/ \E i \in 1..Len(a) :
          /\ i <= Len(b)
          /\ SubSeq(a, 1, i - 1) = SubSeq(b, 1, i - 1)
          /\ CharRank(a[i]) < CharRank(b[i])

RECURSIVE SortedSeq(_)
\* the keys of a set, smallest first
SortedSeq(ks) ==
    IF ks = {} THEN <<>>
    ELSE LET least == CHOOSE k \in ks : \A o \in ks : o = k \/ StrLess(k, o)
         IN  <<least>> \o SortedSeq(ks \ {least})

\* BTreeMap::new()
EmptyMap == <<>>
\* an insert that keeps the value already under the key
InsertIfAbsent(m, key, v) ==
    [x \in (DOMAIN m) \cup {key} |-> IF x \in DOMAIN m THEN m[x] ELSE v]
\* BTreeMap::insert: a value already under the key is replaced
Insert(m, key, v) ==
    [x \in (DOMAIN m) \cup {key} |-> IF x = key THEN v ELSE m[x]]
\* BTreeMap::keys()
Keys(m) == SortedSeq(DOMAIN m)

----------------------------------------------------------------------------
(* TableDesign *)

\* TableDesign::new(title)
TableDesignNew(title) == [table_design_title |-> title, fields |-> EmptyMap]

\* TableDesign::add(field)
TableAdd(t, f) ==
    [t EXCEPT !.fields = Insert(t.fields, f.field_design_title, f)]

\* the inner loop of test, were it to go on to the last of the values that
\* has the field
FirstMatchLast(fd, values) ==
    LET hits == {i \in 1..Len(values) :
                    IsSome(Get(values[i], fd.field_design_title))}
    IN  IF hits = {} THEN None
        ELSE Some(CHOOSE i \in hits : \A h \in hits : i >= h)

\* the inner loop of test: the first of the values that has the field
FirstMatch(fd, values) ==
    LET hits == {i \in 1..Len(values) :
                    IsSome(Get(values[i], fd.field_design_title))}
    IN  IF hits = {} THEN None
        ELSE Some(CHOOSE i \in hits : \A h \in hits : i <= h)

\* a required check that exempts generated fields whatever `input` is
RequiredMissingNoInput(fd, matched, is_input) ==
    ~matched /\ fd.required /\ ~fd.generated

\* a required check that exempts generated fields when `input` is false
RequiredMissingSwapped(fd, matched, is_input) ==
    ~matched /\ fd.required /\ (~fd.generated \/ is_input)

\* the condition under which test declines a field
RequiredMissing(fd, matched, is_input) ==
    ~matched /\ fd.required /\ (~fd.generated \/ ~is_input)

\* the body of the loop of test, were the value of a field that is not
\* required let through when extract declines it
TestLoopBodyLenient(t, fd, values, is_input) ==
    LET m == FirstMatch(fd, values)
        matched == IsSome(m)
        ex == extract(fd, Unwrap(Get(values[Unwrap(m)],
              fd.field_design_title)))
    IN  [key |-> fd.field_design_title,
         matched |-> matched,
         res |-> IF matched /\ ~ex.ok /\ fd.required THEN Err(ex.err)
                 ELSE IF RequiredMissing(fd, matched, is_input)
                 THEN Err(Error("required", Some(fd.field_design_title),
                       None))
                 ELSE Ok(<<>>)]

\* the body of the loop of test for one field: whether a value matched, and
\* Ok or the error test returns with
TestLoopBody(t, fd, values, is_input) ==
    LET m == FirstMatch(fd, values)
        matched == IsSome(m)
        ex == extract(fd, Unwrap(Get(values[Unwrap(m)],
              fd.field_design_title)))
    IN  [key |-> fd.field_design_title,
         matched |-> matched,
         res |-> IF matched /\ ~ex.ok THEN Err(ex.err)
                 ELSE IF RequiredMissing(fd, matched, is_input)
                 THEN Err(Error("required", Some(fd.field_design_title),
                       None))
                 ELSE Ok(<<>>)]

RECURSIVE TestLoop(_, _, _, _)
\* the loop of test over the keys `ks` still to visit: the error of the
\* first field that has one, or Ok(())
TestLoop(t, ks, values, is_input) ==
    IF ks = <<>> THEN Ok(<<>>)
    ELSE LET b == TestLoopBody(t, t.fields[Head(ks)], values, is_input)
         IN  IF ~b.res.ok THEN b.res
             ELSE TestLoop(t, Tail(ks), values, is_input)

\* TableDesign::test(fields, input)
TableDesignTest(t, values, is_input) ==
    TestLoop(t, Keys(t.fields), values, is_input)

----------------------------------------------------------------------------
(* The specification of a call of TableDesign::test *)

\* the largest number of JSON values handed to test
MaxPayload == 2

TestFieldA(req, gen) ==
    [FieldDesignNew(<<"a">>) EXCEPT !.datatype = "Unsigned64",
                                    !.required = req, !.generated = gen]
TestFieldB(req, gen) ==
    [FieldDesignNew(<<"b">>) EXCEPT !.required = req, !.generated = gen]

TestTables ==
    LET t == TableDesignNew(<<"U", "s", "e", "r">>)
        as == {TestFieldA(r, g) : r \in BOOLEAN, g \in BOOLEAN}
        bs == {TestFieldB(r, g) : r \in BOOLEAN, g \in BOOLEAN}
    IN  {t} \cup {TableAdd(t, a) : a \in as} \cup {TableAdd(t, b) : b \in bs}
        \cup {TableAdd(TableAdd(t, a), b) : a \in as, b \in bs}

\* the JSON objects with none, one or both of the keys a and b, each an
\* integer, a string or null, and one value that is no object
TestValues ==
    LET vals == {JInt(1), JStr(<<"a">>), JNull}
    IN  {JObj([key \in ks |-> IF key = <<"a">> THEN va ELSE JStr(<<"a">>)]) :
            ks \in SUBSET {<<"a">>, <<"b">>}, va \in vals}
        \cup {JInt(1)}

InitTest ==
    /\ table \in TestTables
    /\ payload \in UNION {[1..n -> TestValues] : n \in 0..MaxPayload}
    /\ input \in BOOLEAN
    /\ keys = Keys(table.fields)
    /\ visited = <<>>
    /\ tresult = None
    /\ tpc = "loop"
    /\ IdleExtract /\ IdleParse /\ IdleExport /\ IdleUnwrap

\* one iteration of `for key in self.fields.keys()`
TestField ==
    /\ tpc = "loop"
    /\ keys # <<>>
    /\ LET b == TestLoopBody(table, table.fields[Head(keys)], payload, input)
       IN  /\ visited' = Append(visited, b)
           /\ keys' = Tail(keys)
           /\ IF b.res.ok
              THEN tresult' = tresult /\ tpc' = "loop"
              ELSE tresult' = Some(b.res) /\ tpc' = "done"
    /\ UNCHANGED <<table, payload, input, evars, pvars, xvars, uvars>>

\* the loop is over: Ok(())
TestReturn ==
    /\ tpc = "loop"
    /\ keys = <<>>
    /\ tresult' = Some(Ok(<<>>))
    /\ tpc' = "done"
    /\ UNCHANGED <<table, payload, input, keys, visited, evars, pvars,
                   xvars, uvars>>

NextTest == TestField \/ TestReturn

SpecTest == InitTest /\ [][NextTest]_vars

----------------------------------------------------------------------------
(* &str *)

IsWhitespace(c) == c \in {" ", "U+0009"}

RECURSIVE TrimStart(_)
TrimStart(s) ==
    IF s # <<>> /\ IsWhitespace(Head(s)) THEN TrimStart(Tail(s)) ELSE s

RECURSIVE TrimEnd(_)
TrimEnd(s) ==
    IF s # <<>> /\ IsWhitespace(s[Len(s)])
    THEN TrimEnd(SubSeq(s, 1, Len(s) - 1)) ELSE s

\* str::trim
Trim(s) == TrimEnd(TrimStart(s))

\* str::contains(&str) and str::contains(char)
Contains(s, sub) ==
    \E i \in 0..(Len(s) - Len(sub)) : SubSeq(s, i + 1, i + Len(sub)) = sub

\* str::starts_with(char)
StartsWith(s, c) == s # <<>> /\ s[1] = c

\* str::starts_with(&str)
StartsWithStr(s, prefix) ==
    Len(s) >= Len(prefix) /\ SubSeq(s, 1, Len(prefix)) = prefix

RECURSIVE Split(_, _)
\* str::split(char): the pieces between the separators, empty ones included
Split(s, sep) ==
    IF \A i \in 1..Len(s) : s[i] # sep THEN <<s>>
    ELSE LET i == CHOOSE i \in 1..Len(s) :
                    s[i] = sep /\ \A j \in 1..(i - 1) : s[j] # sep
         IN  <<SubSeq(s, 1, i - 1)>> \o Split(SubSeq(s, i + 1, Len(s)), sep)

\* .filter(|&substr| !substr.is_empty())
NonEmpty(ts) == SelectSeq(ts, LAMBDA t : t # <<>>)

\* the characters of s from the 0-based position a up to, not including, b
Slice(s, a, b) == SubSeq(s, a + 1, b)

\* the byte offset a is at the start of the string, at its end or between
\* two of its characters, and the number of characters before it
IsCharBoundary(s, a) == \E i \in 0..Len(s) : ByteLen(SubSeq(s, 1, i)) = a
CharsBefore(s, a) == CHOOSE i \in 0..Len(s) : ByteLen(SubSeq(s, 1, i)) = a

\* &s[a..b], for the byte offsets a and b: None stands for the panic of a
\* range that is out of order, past the end or inside a character
ByteSlice(s, a, b) ==
    IF a <= b /\ IsCharBoundary(s, a) /\ IsCharBoundary(s, b)
    THEN Some(SubSeq(s, CharsBefore(s, a) + 1, CharsBefore(s, b)))
    ELSE None

RECURSIVE NextIndexOfLoop(_, _, _, _)
\* the loop of next_index_of at the 0-based position p, `index` characters of
\* the sequence matched so far
NextIndexOfLoop(s, sequence, p, index) ==
    IF p >= Len(s) \/ index = Len(sequence) THEN None
    ELSE LET matching == s[p + 1] = sequence[index + 1]
             next == IF matching THEN index + 1 ELSE 0
         IN  IF matching /\ next = Len(sequence) THEN Some(p)
             ELSE NextIndexOfLoop(s, sequence, p + 1, next)

\* IndexOf::next_index_of
next_index_of(s, sequence, from) == NextIndexOfLoop(s, sequence, from, 0)

\* IndexOf::index_of
index_of(s, sequence) == next_index_of(s, sequence, 0)

DigitValue(c) == (CHOOSE i \in 1..10 : DigitChars[i] = c) - 1
IsDigit(c) == \E i \in 1..10 : DigitChars[i] = c

RECURSIVE DecimalValue(_)
DecimalValue(s) ==
    IF s = <<>> THEN 0
    ELSE 10 * DecimalValue(SubSeq(s, 1, Len(s) - 1)) + DigitValue(s[Len(s)])

\* str::parse::<isize>(): an optional sign and at least one digit (of at
\* most nine digits here, so that the value is far from overflowing)
ParseIsize(s) ==
    LET signed == s # <<>> /\ s[1] \in {"+", "-"}
        ds == IF signed THEN Tail(s) ELSE s
    IN  IF ds = <<>> \/ Len(ds) > 9 \/ \E i \in 1..Len(ds) : ~IsDigit(ds[i])
        THEN None
        ELSE Some(IF signed /\ s[1] = "-" THEN 0 - DecimalValue(ds)
                  ELSE DecimalValue(ds))

----------------------------------------------------------------------------
(* The DDL parser (db.rs) *)

Backtick == <<"U+0060">>

\* a parse error: its kind and the text its message quotes; the kind
\* "panic" stands for the abort of the thread in place of a return
ParseError(kind, text) == [kind |-> kind, text |-> text]

\* how a call that got the error e from a callee ends: Err with `?`, unless
\* the callee did not return
Failure(e) == IF e.kind = "panic" THEN "Panic" ELSE "Err"

\* unwrap_str: the text between the first backtick and the next
unwrap_str(str) ==
    IF ByteLen(str) > 1 /\ Contains(str, Backtick)
    THEN LET pos_1 == Unwrap(index_of(str, Backtick))
             pos_2 == next_index_of(str, Backtick, pos_1 + 1)
             inner == ByteSlice(str, pos_1 + 1, Unwrap(pos_2))
         IN  IF IsNone(pos_2) THEN Err(ParseError("one_backtick", str))
             ELSE IF IsNone(inner) THEN Err(ParseError("panic", str))
             ELSE Ok(Unwrap(inner))
    ELSE Err(ParseError("no_backtick", str))

\* read_name: the first token that starts with a backtick, unwrapped
read_name(l) ==
    LET tokens == Split(l, " ")
        named == {i \in 1..Len(tokens) : StartsWith(tokens[i], "U+0060")}
    IN  IF named = {} THEN Err(ParseError("no_table_name", l))
        ELSE unwrap_str(tokens[CHOOSE i \in named : \A j \in named : i <= j])

\* unwrap_parenthesis: the lower-cased text between the first ( and the
\* first )
unwrap_parenthesis(l) ==
    LET open == index_of(l, <<"(">>)
        close == index_of(l, <<")">>)
        inner == ByteSlice(ToAsciiLowercase(l), Unwrap(open) + 1,
                           Unwrap(close))
    IN  IF IsNone(open) THEN Err(ParseError("no_open", l))
        ELSE IF IsNone(close) THEN Err(ParseError("no_close", l))
        ELSE IF Unwrap(open) + 1 > Unwrap(close)
                   \/ Unwrap(open) + 1 >= ByteLen(l)
        THEN Err(ParseError("parenthesis_format", l))
        ELSE IF IsNone(inner) THEN Err(ParseError("panic", l))
        ELSE Ok(Unwrap(inner))

\* extract_csl: the trimmed pieces between the commas
extract_csl(line_src) ==
    LET inner == unwrap_parenthesis(line_src)
        pieces == Split(inner.val, ",")
    IN  IF ~inner.ok THEN inner
        ELSE Ok([i \in 1..Len(pieces) |-> Trim(pieces[i])])

\* IntoHashSet::into_set: the elements of the list as a set
into_set(list) == {list[i] : i \in 1..Len(list)}

\* how add_to_db ended: "Ok", "Err" or "Panic", the table as it left it and
\* the error it returned
Ended(status, t, e) == [status |-> status, table |-> t, err |-> e]

\* the column-line part of add_to_db, were the datatype of an enum column
\* left as FieldDesign::new sets it
ColumnLineUntyped(l, tokens, t) ==
    LET title == unwrap_str(tokens[1])
        f0 == [FieldDesignNew(<<"t", "e", "m", "p">>)
                 EXCEPT !.field_design_title = title.val]
        descriptor == ToAsciiLowercase(Trim(tokens[2]))
        is_int == descriptor = <<"i", "n", "t">>
        is_varchar == StartsWithStr(descriptor, <<"v","a","r","c","h","a","r",
              "(">>)
        is_enum == StartsWithStr(descriptor, <<"e","n","u","m","(">>)
        is_set == StartsWithStr(descriptor, <<"s","e","t","(">>)
        is_byte == Contains(descriptor, <<"t","i","n","y","i","n","t">>)
        is_json == Contains(descriptor, <<"j","s","o","n">>)
        increment == Contains(l, <<"a","u","t","o","_","i","n","c","r","e",
              "m","e","n","t">>)
        index == next_index_of(tokens[2], <<")">>, 7)
        inner == ByteSlice(tokens[2], 8, Unwrap(index))
        size == ParseIsize(Unwrap(inner))
        csl == extract_csl(descriptor)
        required == Contains(l, <<"n","o","t"," ","n","u","l","l">>)
        add(f) == Ended("Ok", TableAdd(t, [f EXCEPT !.required = required]),
                        None)
    IN  IF ~title.ok THEN Ended(Failure(title.err), t, title.err)
        ELSE IF Len(tokens) < 2 THEN Ended("Panic", t, None)
        ELSE IF is_int
        THEN add([f0 EXCEPT
                 !.datatype = IF Contains(l, <<"u","n","s","i","g","n","e",
                       "d">>)
                              THEN "Unsigned64" ELSE "Signed64",
                 !.increment = increment,
                 !.generated = increment,
                 !.bytes = Some(64)])
        ELSE IF is_varchar
        THEN IF IsNone(index)
             THEN Ended("Err", t, ParseError("varchar", l))
             ELSE IF IsNone(inner) THEN Ended("Panic", t, None)
             ELSE IF IsNone(size)
             THEN Ended("Err", t, ParseError("parse_int", tokens[2]))
             ELSE add([f0 EXCEPT !.datatype = "String",
                                 !.characters = size])
        ELSE IF is_enum
        THEN IF ~csl.ok THEN Ended(Failure(csl.err), t, csl.err)
             ELSE add([f0 EXCEPT !.enum_set = Some(csl.val)])
        ELSE IF is_set
        THEN IF ~csl.ok THEN Ended(Failure(csl.err), t, csl.err)
             ELSE add([f0 EXCEPT !.datatype = "Set",
                                 !.set = Some(into_set(csl.val))])
        ELSE IF is_byte THEN add([f0 EXCEPT !.datatype = "Byte"])
        ELSE IF is_json THEN add([f0 EXCEPT !.datatype = "Json"])
        ELSE Ended("Err", t, ParseError("descriptor", descriptor))

\* the column-line part of add_to_db (the first token has a backtick)
ColumnLine(l, tokens, t) ==
    LET title == unwrap_str(tokens[1])
        f0 == [FieldDesignNew(<<"t", "e", "m", "p">>)
                 EXCEPT !.field_design_title = title.val]
        descriptor == ToAsciiLowercase(Trim(tokens[2]))
        is_int == descriptor = <<"i", "n", "t">>
        is_varchar == StartsWithStr(descriptor, <<"v","a","r","c","h","a","r",
              "(">>)
        is_enum == StartsWithStr(descriptor, <<"e","n","u","m","(">>)
        is_set == StartsWithStr(descriptor, <<"s","e","t","(">>)
        is_byte == Contains(descriptor, <<"t","i","n","y","i","n","t">>)
        is_json == Contains(descriptor, <<"j","s","o","n">>)
        increment == Contains(l, <<"a","u","t","o","_","i","n","c","r","e",
              "m","e","n","t">>)
        index == next_index_of(tokens[2], <<")">>, 7)
        inner == ByteSlice(tokens[2], 8, Unwrap(index))
        size == ParseIsize(Unwrap(inner))
        csl == extract_csl(descriptor)
        required == Contains(l, <<"n","o","t"," ","n","u","l","l">>)
        add(f) == Ended("Ok", TableAdd(t, [f EXCEPT !.required = required]),
                        None)
    IN  IF ~title.ok THEN Ended(Failure(title.err), t, title.err)
        ELSE IF Len(tokens) < 2 THEN Ended("Panic", t, None)
        ELSE IF is_int
        THEN add([f0 EXCEPT
                 !.datatype = IF Contains(l, <<"u","n","s","i","g","n","e",
                       "d">>)
                              THEN "Unsigned64" ELSE "Signed64",
                 !.increment = increment,
                 !.generated = increment,
                 !.bytes = Some(64)])
        ELSE IF is_varchar
        THEN IF IsNone(index)
             THEN Ended("Err", t, ParseError("varchar", l))
             ELSE IF IsNone(inner) THEN Ended("Panic", t, None)
             ELSE IF IsNone(size)
             THEN Ended("Err", t, ParseError("parse_int", tokens[2]))
             ELSE add([f0 EXCEPT !.datatype = "String",
                                 !.characters = size])
        ELSE IF is_enum
        THEN IF ~csl.ok THEN Ended(Failure(csl.err), t, csl.err)
             ELSE add([f0 EXCEPT !.datatype = "Enum",
                                 !.enum_set = Some(csl.val)])
        ELSE IF is_set
        THEN IF ~csl.ok THEN Ended(Failure(csl.err), t, csl.err)
             ELSE add([f0 EXCEPT !.datatype = "Set",
                                 !.set = Some(into_set(csl.val))])
        ELSE IF is_byte THEN add([f0 EXCEPT !.datatype = "Byte"])
        ELSE IF is_json THEN add([f0 EXCEPT !.datatype = "Json"])
        ELSE Ended("Err", t, ParseError("descriptor", descriptor))

\* the primary-key part of add_to_db, were every field of the table marked
PrimaryKeyLineMarksAll(tokens, t) ==
    LET name == unwrap_str(tokens[3])
    IN  IF Len(tokens) < 3
        THEN Ended("Err", t, ParseError("primary_end_of_line", <<>>))
        ELSE IF ~name.ok THEN Ended(Failure(name.err), t, name.err)
        ELSE IF name.val \notin DOMAIN t.fields
        THEN Ended("Err", t, ParseError("primary_unknown", tokens[3]))
        ELSE Ended("Ok",
                   [t EXCEPT !.fields = [n \in DOMAIN t.fields |->
                                           [t.fields[n] EXCEPT !.primary = TRUE]]],
                   None)

\* the primary-key part of add_to_db, were a name that is no field of the
\* table passed over
PrimaryKeyLineLenient(tokens, t) ==
    LET name == unwrap_str(tokens[3])
    IN  IF Len(tokens) < 3
        THEN Ended("Err", t, ParseError("primary_end_of_line", <<>>))
        ELSE IF ~name.ok THEN Ended(Failure(name.err), t, name.err)
        ELSE IF name.val \notin DOMAIN t.fields
        THEN Ended("Ok", t, None)
        ELSE Ended("Ok", [t EXCEPT !.fields[name.val].primary = TRUE], None)

\* the primary-key part of add_to_db (the first token is "primary")
PrimaryKeyLine(tokens, t) ==
    LET name == unwrap_str(tokens[3])
    IN  IF Len(tokens) < 3
        THEN Ended("Err", t, ParseError("primary_end_of_line", <<>>))
        ELSE IF ~name.ok THEN Ended(Failure(name.err), t, name.err)
        ELSE IF name.val \notin DOMAIN t.fields
        THEN Ended("Err", t, ParseError("primary_unknown", tokens[3]))
        ELSE Ended("Ok", [t EXCEPT !.fields[name.val].primary = TRUE], None)

\* add_to_db without the lower-casing of the line
add_to_dbCaseSensitive(source, t) ==
    LET l == Trim(source)
        tokens == NonEmpty(Split(l, " "))
    IN  IF l = <<>> THEN Ended("Ok", t, None)
        ELSE IF tokens = <<>>
        THEN Ended("Err", t, ParseError("no_field_data", l))
        ELSE IF ByteLen(tokens[1]) < 3
        THEN Ended("Err", t, ParseError("empty_name", l))
        ELSE IF tokens[1] = <<"p","r","i","m","a","r","y">>
        THEN PrimaryKeyLine(tokens, t)
        ELSE IF Contains(tokens[1], Backtick) THEN ColumnLine(l, tokens, t)
        ELSE Ended("Ok", t, None)

\* add_to_db(source, table)
add_to_db(source, t) ==
    LET l == ToAsciiLowercase(Trim(source))
        tokens == NonEmpty(Split(l, " "))
    IN  IF l = <<>> THEN Ended("Ok", t, None)
        ELSE IF tokens = <<>>
        THEN Ended("Err", t, ParseError("no_field_data", l))
        ELSE IF ByteLen(tokens[1]) < 3
        THEN Ended("Err", t, ParseError("empty_name", l))
        ELSE IF tokens[1] = <<"p","r","i","m","a","r","y">>
        THEN PrimaryKeyLine(tokens, t)
        ELSE IF Contains(tokens[1], Backtick) THEN ColumnLine(l, tokens, t)
        ELSE Ended("Ok", t, None)

----------------------------------------------------------------------------
(* The specification of a call of Database::from_schema.  The backtick of  *)
(* the DDL is shown as ' in the comments.                                  *)

\* the largest number of lines of a schema file
MaxLines == 4

\* the line  CREATE TABLE 'user' (
LineCreateUser ==
    <<"C", "R", "E", "A", "T", "E", " ", "T", "A", "B", "L", "E", " ",
      "U+0060", "u", "s", "e", "r", "U+0060", " ", "(">>

\* the line  CREATE TABLE 'role' (
LineCreateRole ==
    <<"C", "R", "E", "A", "T", "E", " ", "T", "A", "B", "L", "E", " ",
      "U+0060", "r", "o", "l", "e", "U+0060", " ", "(">>

\* the line  CREATE TABLE user (
LineCreateUnnamed ==
    <<"C", "R", "E", "A", "T", "E", " ", "T", "A", "B", "L", "E", " ", "u",
      "s", "e", "r", " ", "(">>

\* the line    'id' int unsigned NOT NULL AUTO_INCREMENT,
LineId ==
    <<" ", " ", "U+0060", "i", "d", "U+0060", " ", "i", "n", "t", " ", "u",
      "n", "s", "i", "g", "n", "e", "d", " ", "N", "O", "T", " ", "N", "U",
      "L", "L", " ", "A", "U", "T", "O", "_", "I", "N", "C", "R", "E", "M",
      "E", "N", "T", ",">>

\* the line  'email' varchar(110) NOT NULL,
LineEmail ==
    <<"U+0060", "e", "m", "a", "i", "l", "U+0060", " ", "v", "a", "r", "c",
      "h", "a", "r", "(", "1", "1", "0", ")", " ", "N", "O", "T", " ", "N",
      "U", "L", "L", ",">>

\* the line  'kind' enum(a,b),
LineKind ==
    <<"U+0060", "k", "i", "n", "d", "U+0060", " ", "e", "n", "u", "m", "(",
      "a", ",", "b", ")", ",">>

\* the line  'kind' enum(a,,b),
LineKindGap ==
    <<"U+0060", "k", "i", "n", "d", "U+0060", " ", "e", "n", "u", "m", "(",
      "a", ",", ",", "b", ")", ",">>

\* the line  'tags' set(a,b),
LineTags ==
    <<"U+0060", "t", "a", "g", "s", "U+0060", " ", "s", "e", "t", "(", "a",
      ",", "b", ")", ",">>

\* the line  'tags' set(,a),
LineTagsGap ==
    <<"U+0060", "t", "a", "g", "s", "U+0060", " ", "s", "e", "t", "(", ",",
      "a", ")", ",">>

\* the line  'id'
LineBare ==
    <<"U+0060", "i", "d", "U+0060">>

\* the line  'data' blob,
LineBlob ==
    <<"U+0060", "d", "a", "t", "a", "U+0060", " ", "b", "l", "o", "b", ",">>

\* the line  PRIMARY KEY ('id'),
LinePrimary ==
    <<"P", "R", "I", "M", "A", "R", "Y", " ", "K", "E", "Y", " ", "(",
      "U+0060", "i", "d", "U+0060", ")", ",">>

\* the line  KEY 'idx' ('email'),
LineIndex ==
    <<"K", "E", "Y", " ", "U+0060", "i", "d", "x", "U+0060", " ", "(",
      "U+0060", "e", "m", "a", "i", "l", "U+0060", ")", ",">>

\* the line  ) ENGINE=InnoDB;
LineClose ==
    <<")", " ", "E", "N", "G", "I", "N", "E", "=", "I", "n", "n", "o", "D",
      "B", ";">>

\* the empty line
LineBlank == <<>>

SchemaLines == {LineCreateUser,
                LineCreateRole,
                LineCreateUnnamed,
                LineId,
                LineEmail,
                LineKind,
                LineKindGap,
                LineTags,
                LineTagsGap,
                LineBare,
                LineBlob,
                LinePrimary,
                LineIndex,
                LineClose,
                LineBlank}

\* the schema of the user table: the lines
\*     CREATE TABLE 'user' (
\*       'id' int unsigned NOT NULL AUTO_INCREMENT,
\*     'email' varchar(110) NOT NULL,
\*     PRIMARY KEY ('id'),
UserSchema == <<LineCreateUser, LineId, LineEmail, LinePrimary>>

\* the table user with id declared, made primary and declared anew
RedeclareSchema == <<LineCreateUser, LineId, LinePrimary, LineId>>

\* the table user with id declared, opened anew and email declared
ReopenSchema == <<LineCreateUser, LineId, LineCreateUser, LineEmail>>

\* the texts whose reading lines_read follows
Scenarios == {UserSchema, RedeclareSchema, ReopenSchema}

\* the sequence s is the beginning of the sequence t
IsPrefix(s, t) == Len(s) <= Len(t) /\ SubSeq(t, 1, Len(s)) = s

\* Database::new()
DatabaseNew == [title |-> <<"D","a","t","a","b","a","s","e">>,
                tables |-> EmptyMap]

\* Database::add(table)
DatabaseAdd(d, t) ==
    [d EXCEPT !.tables = Insert(d.tables, t.table_design_title, t)]

InitParse ==
    /\ line = None
    /\ lineno = 0
    /\ reading = FALSE
    /\ db = DatabaseNew
    /\ table_title = <<>>
    /\ outcomes = <<>>
    /\ lines_read = Some(<<>>)
    /\ presult = None
    /\ ppc = "loop"
    /\ IdleExtract /\ IdleTable /\ IdleExport /\ IdleUnwrap

\* how from_schema ends: Ok(db), Err(e), or the panic of the thread
Returns(status, e) ==
    [status |-> status,
     db |-> IF status = "Ok" THEN Some(db) ELSE None,
     err |-> e]

\* the loop body, were `reading` left as it is by a closing line
LoopBodyKeepsReading(rd, title, d, src) ==
    LET after(r, tt, dd, o, e) ==
            [reading |-> r, table_title |-> tt, db |-> dd, outcome |-> o,
             err |-> e]
        start(name) ==
            IF name.ok
            THEN after(TRUE, name.val,
                       DatabaseAdd(d, TableDesignNew(name.val)), "Table",
                       None)
            ELSE after(TRUE, title, d, Failure(name.err), name.err)
        add(added) ==
            IF added.status = "Ok"
            THEN after(rd, title, [d EXCEPT !.tables[title] = added.table],
                       "Ok", None)
            ELSE after(rd, title, d, added.status, added.err)
        on(l) ==
            IF Contains(l, <<"C","R","E","A","T","E"," ","T","A","B","L","E">>)
            THEN start(read_name(l))
            ELSE IF StartsWith(l, ")") /\ Contains(l, <<";">>)
            THEN after(rd, title, d, "Close", None)
            ELSE IF rd THEN add(add_to_db(l, d.tables[title]))
            ELSE after(rd, title, d, "Skip", None)
    IN  on(Trim(src))

\* the loop body, were `table_title` left as it is by a table-start line
\* read while a table is open
LoopBodyKeepsTitle(rd, title, d, src) ==
    LET after(r, tt, dd, o, e) ==
            [reading |-> r, table_title |-> tt, db |-> dd, outcome |-> o,
             err |-> e]
        start(name) ==
            IF name.ok
            THEN after(TRUE, IF rd THEN title ELSE name.val,
                       DatabaseAdd(d, TableDesignNew(name.val)), "Table",
                       None)
            ELSE after(TRUE, title, d, Failure(name.err), name.err)
        add(added) ==
            IF added.status = "Ok"
            THEN after(rd, title, [d EXCEPT !.tables[title] = added.table],
                       "Ok", None)
            ELSE after(rd, title, d, added.status, added.err)
        on(l) ==
            IF Contains(l, <<"C","R","E","A","T","E"," ","T","A","B","L","E">>)
            THEN start(read_name(l))
            ELSE IF StartsWith(l, ")") /\ Contains(l, <<";">>)
            THEN after(FALSE, title, d, "Close", None)
            ELSE IF rd THEN add(add_to_db(l, d.tables[title]))
            ELSE after(rd, title, d, "Skip", None)
    IN  on(Trim(src))

\* what one iteration of `for line_src in schema.lines()` does on the line
\* src, with the locals reading = rd, table_title = title and db = d: the
\* locals after it, how the line was taken ("Table", "Close", "Skip", or the
\* status of add_to_db) and the error that ends the call
LoopBody(rd, title, d, src) ==
    LET after(r, tt, dd, o, e) ==
            [reading |-> r, table_title |-> tt, db |-> dd, outcome |-> o,
             err |-> e]
        start(name) ==
            IF name.ok
            THEN after(TRUE, name.val,
                       DatabaseAdd(d, TableDesignNew(name.val)), "Table",
                       None)
            ELSE after(TRUE, title, d, Failure(name.err), name.err)
        add(added) ==
            IF added.status = "Ok"
            THEN after(rd, title, [d EXCEPT !.tables[title] = added.table],
                       "Ok", None)
            ELSE after(rd, title, d, added.status, added.err)
        on(l) ==
            IF Contains(l, <<"C","R","E","A","T","E"," ","T","A","B","L","E">>)
            THEN start(read_name(l))
            ELSE IF StartsWith(l, ")") /\ Contains(l, <<";">>)
            THEN after(FALSE, title, d, "Close", None)
            ELSE IF rd THEN add(add_to_db(l, d.tables[title]))
            ELSE after(rd, title, d, "Skip", None)
    IN  on(Trim(src))

\* one iteration of `for line_src in schema.lines()`, on the line src
ReadLine(src) ==
    /\ ppc = "loop"
    /\ lineno < MaxLines
    /\ line' = Some(src)
    /\ lineno' = lineno + 1
    /\ lines_read' =
           IF IsSome(lines_read)
                  /\ \E text \in Scenarios :
                         IsPrefix(Append(Unwrap(lines_read), src), text)
           THEN Some(Append(Unwrap(lines_read), src))
           ELSE None
    /\ LET step(body) ==
           /\ reading' = body.reading
           /\ table_title' = body.table_title
           /\ db' = body.db
           /\ outcomes' = Append(outcomes, body.outcome)
           /\ IF body.outcome \in {"Err", "Panic"}
              THEN /\ presult' = Some(Returns(body.outcome, body.err))
                   /\ ppc' = "done"
              ELSE UNCHANGED <<presult, ppc>>
       IN  step(LoopBody(reading, table_title, db, src))
    /\ UNCHANGED <<evars, tvars, xvars, uvars>>

\* the lines are exhausted: Ok(db)
EndOfSchema ==
    /\ ppc = "loop"
    /\ presult' = Some(Returns("Ok", None))
    /\ ppc' = "done"
    /\ UNCHANGED <<line, lineno, reading, db, table_title, outcomes,
                   lines_read,
                   evars, tvars, xvars, uvars>>

NextParse == (\E src \in SchemaLines : ReadLine(src)) \/ EndOfSchema

SpecParse == InitParse /\ [][NextParse]_vars

----------------------------------------------------------------------------
(* Properties of FieldDesign::extract *)

Returned == epc = "done"
Res == Unwrap(result)

IsJsonInt(j) == j.k = "Number" /\ j.n.t \in {"PosInt", "NegInt"}
IsJsonUInt(j) == j.k = "Number" /\ j.n.t = "PosInt"

\* the 64-bit value a narrower one stands for: zero- or sign-extended
Widen(v, signed) ==
    v \o [i \in 1..(4 - Len(v)) |->
            IF signed /\ IsNegative(v) THEN Base - 1 ELSE 0]

\* the JSON integer j is a value of the integer type t: nothing is lost by
\* keeping only the low limbs of it
InRangeOf(j, t) ==
    IF IsSigned(t)
    THEN /\ j.n.t = "NegInt" \/ j.n.w[4] < Half
         /\ Widen(SubSeq(j.n.w, 1, Limbs(t)), TRUE) = j.n.w
    ELSE /\ j.n.t = "PosInt"
         /\ \A i \in (Limbs(t) + 1)..4 : j.n.w[i] = 0
         /\ IsByte(t) => j.n.w[1] < 256

\* the value of a JSON integer that is a natural number below 2^31
IsSmallNat(j) == j.n.t = "PosInt" /\ j.n.w[3] = 0 /\ j.n.w[4] = 0 /\ j.n.w[2] < Half
NatOf(j) == j.n.w[1] + Base * j.n.w[2]

\* the largest value of the narrow types, where it is below 2^31
MaxOf(t) ==
    CASE t = "Signed32" -> 2147483647
      [] t = "Signed16" -> 32767
      [] t = "Unsigned16" -> 65535
      [] t = "Byte" -> 255

NarrowTypes == {"Signed32", "Unsigned32", "Signed16", "Unsigned16", "Byte"}

\* C4: narrowing safety. For a field of type Signed32, Unsigned32, Signed16,
\* Unsigned16 or Byte and a JSON integer v, extract succeeds only when v is
\* in the range of the target width, and then the value extracted equals v;
\* out of range it returns an error, never a truncated or wrapped value.
C4_NarrowingSafety ==
    (Returned /\ field.datatype \in NarrowTypes /\ IsJsonInt(json)) =>
        /\ Res.ok =>
            /\ InRangeOf(json, field.datatype)
            /\ Res.val.tag = field.datatype
            /\ Widen(Res.val.v, IsSigned(field.datatype)) = json.n.w
        /\ ~InRangeOf(json, field.datatype) =>
            ~Res.ok /\ Res.err.kind \in {"cast", "downsize"}
        /\ (IsSmallNat(json) /\ field.datatype # "Unsigned32") =>
            /\ InRangeOf(json, field.datatype)
                   <=> NatOf(json) <= MaxOf(field.datatype)
            /\ (Res.ok /\ field.datatype # "Signed32")
                   => Res.val.v = <<NatOf(json)>>

\* C4 witness: an Unsigned16 field has rejected 70000 as a narrowing error
C4_Witness ==
    /\ Returned
    /\ field.datatype = "Unsigned16"
    /\ json = JInt(70000)
    /\ ~Res.ok /\ Res.err.kind = "downsize"

\* C5: enum bound. For an Enum field whose enum_set has k labels and a JSON
\* unsigned integer i, extract succeeds iff i < k, and then yields Enum(i).
C5_EnumBound ==
    (Returned /\ field.datatype = "Enum" /\ IsSome(field.enum_set)
              /\ IsJsonUInt(json)) =>
        LET k == Len(Unwrap(field.enum_set))
            below == IsSmallNat(json) /\ NatOf(json) < k
        IN  /\ Res.ok <=> below
            /\ Res.ok => Res.val = Value("Enum", SubSeq(json.n.w, 1, 2))
            /\ ~Res.ok => Res.err.kind \in {"downsize", "enum_range"}

\* C5 witness: with 8 labels the index 8 has been rejected
C5_Witness ==
    /\ Returned
    /\ field.datatype = "Enum"
    /\ field.enum_set = Some(Labels(8))
    /\ json = JInt(8)
    /\ ~Res.ok /\ Res.err.kind = "enum_range"

\* C6: length bound. For a String field with characters = n (bytes and
\* regex unset) and a JSON string s, extract accepts s iff the character
\* length of s is at most n.
C6_LengthBound ==
    (Returned /\ field.datatype = "String" /\ IsSome(field.characters)
              /\ IsNone(field.bytes) /\ IsNone(field.regex)
              /\ json.k = "String") =>
        (Res.ok <=> CharLen(json.s) <= Unwrap(field.characters))

\* C6 for strings of one-byte characters only
C6_Ascii ==
    (Returned /\ field.datatype = "String" /\ IsSome(field.characters)
              /\ IsNone(field.bytes) /\ IsNone(field.regex)
              /\ json.k = "String"
              /\ \A i \in 1..Len(json.s) : Utf8Len(json.s[i]) = 1) =>
        (Res.ok <=> CharLen(json.s) <= Unwrap(field.characters))

\* C7: bit domain. For a Bit field and a JSON unsigned integer v, extract
\* succeeds iff v is 0 or 1; every other value is an error.
C7_BitDomain ==
    (Returned /\ field.datatype = "Bit" /\ IsJsonUInt(json)) =>
        (Res.ok <=> json \in {JInt(0), JInt(1)})

\* C8: digit-count bound. For an integer field with characters = n and a
\* JSON integer v of the right signedness and range, extract succeeds only
\* if the number of decimal digits of v is at most n, for negative values of
\* signed fields as well as for positive ones.  (Stated for v # 0, so that
\* it does not rest on how many digits 0 is taken to have.)
C8_DigitCount ==
    (Returned /\ field.datatype \in IntTypes /\ IsSome(field.characters)
              /\ IsJsonInt(json) /\ ~IsZero(json.n.w)
              /\ InRangeOf(json, field.datatype)) =>
        (Res.ok =>
            digitsOfMagnitude(json.n.w, json.n.t = "NegInt")
                <= Unwrap(field.characters))

\* C8 for the positive values only
C8_Positive ==
    (Returned /\ field.datatype \in IntTypes /\ IsSome(field.characters)
              /\ IsJsonUInt(json) /\ ~IsZero(json.n.w)
              /\ InRangeOf(json, field.datatype)) =>
        (Res.ok <=>
            digitsOfMagnitude(json.n.w, FALSE) <= Unwrap(field.characters))

\* C9: the regex constraint is a full match. For a String field with regex
\* r and a JSON string s within the length bounds, extract accepts s only if
\* the whole of s matches r.
C9_RegexFullMatch ==
    (Returned /\ field.datatype = "String" /\ IsSome(field.regex)
              /\ IsSome(RegexNew(Unwrap(field.regex)))
              /\ json.k = "String") =>
        (Res.ok => IsFullMatch(Unwrap(RegexNew(Unwrap(field.regex))), json.s))

\* C10: internal-consistency detection. For a field with datatype Enum and
\* enum_set absent, or datatype Set and set absent, extract returns an error
\* for every JSON value; a value of the right JSON type gets the internal
\* error, not a DataTypeValue.
C10_MissingData ==
    Returned =>
        /\ (field.datatype = "Enum" /\ IsNone(field.enum_set)) =>
            /\ ~Res.ok
            /\ (IsJsonUInt(json) /\ InRangeOf(json, "Unsigned32"))
                   => Res.err.kind = "no_enum"
        /\ (field.datatype = "Set" /\ IsNone(field.set)) =>
            /\ ~Res.ok
            /\ json.k = "String" => Res.err.kind = "no_set"

\* C10 witness: an Enum field without enum_set has answered the index 0
\* with the internal error
C10_Witness ==
    /\ Returned
    /\ field.datatype = "Enum" /\ IsNone(field.enum_set)
    /\ json = JInt(0)
    /\ ~Res.ok /\ Res.err.kind = "no_enum"

----------------------------------------------------------------------------
(* Properties of TableDesign::test *)

\* no value of the payload has the field
Absent(title) ==
    \A i \in 1..Len(payload) :
        ~(payload[i].k = "Object" /\ title \in DOMAIN payload[i].o)

\* C3: required/generated policy. For a field that no payload object
\* contains, validation fails because of that field iff the field is
\* required and (it is not generated or is_input is false); test returns that
\* failure, and returns Ok only if no absent field is in that case.
C3_RequiredPolicy ==
    /\ \A i \in 1..Len(visited) :
        LET fd == table.fields[visited[i].key]
            declined == /\ ~visited[i].res.ok
                        /\ visited[i].res.err.kind = "required"
                        /\ visited[i].res.err.title = Some(fd.field_design_title)
        IN  Absent(fd.field_design_title) =>
                /\ declined <=> (fd.required /\ (~fd.generated \/ ~input))
                /\ declined => (tpc = "done" /\ tresult = Some(visited[i].res))
    /\ (tpc = "done" /\ Unwrap(tresult).ok) =>
        \A key \in DOMAIN table.fields :
            Absent(key) =>
                ~(table.fields[key].required
                  /\ (~table.fields[key].generated \/ ~input))

\* C3 witness: with is_input = false, test has declined a payload for the
\* absence of a field that is required and generated
C3_Witness ==
    /\ tpc = "done"
    /\ ~input
    /\ ~Unwrap(tresult).ok
    /\ Unwrap(tresult).err.kind = "required"
    /\ Unwrap(tresult).err.title = Some(<<"a">>)
    /\ table.fields[<<"a">>].required /\ table.fields[<<"a">>].generated
    /\ Absent(<<"a">>)

----------------------------------------------------------------------------
(* Properties of Database::from_schema *)

Ended_ == ppc = "done"
PRes == Unwrap(presult)

\* a line was malformed: the table-name reader or the column-line parser
\* did not accept it
SomeMalformed == \E i \in 1..Len(outcomes) : outcomes[i] \in {"Err", "Panic"}

\* C1: from_schema is all-or-nothing. If a CREATE TABLE line or a line
\* handed to the column-line parser is malformed, the call returns an error
\* at the first such line and no Database; it returns a Database only when
\* every such line was parsed without error.
C1_AllOrNothing ==
    /\ SomeMalformed =>
        /\ Ended_
        /\ PRes.status = "Err"
        /\ IsNone(PRes.db)
        /\ \A i \in 1..(Len(outcomes) - 1) : outcomes[i] \notin {"Err",
              "Panic"}
    /\ (Ended_ /\ PRes.status = "Ok") => ~SomeMalformed

\* C1 but for "returns an error": a malformed line ends the call at that
\* line, without a Database
C1_NoPartialDatabase ==
    /\ SomeMalformed =>
        /\ Ended_
        /\ PRes.status # "Ok"
        /\ IsNone(PRes.db)
        /\ \A i \in 1..(Len(outcomes) - 1) : outcomes[i] \notin {"Err",
              "Panic"}
    /\ (Ended_ /\ PRes.status = "Ok") => (~SomeMalformed /\ PRes.db = Some(db))

\* C2: no operation of the core panics on malformed input: from_schema ends
\* in Ok or Err for every DDL text; a column line that is a backtick-quoted
\* identifier with no type descriptor yields a parse error, not an abort.
C2_NoPanic ==
    Ended_ => PRes.status \in {"Ok", "Err"}

----------------------------------------------------------------------------
(* The messages of the errors of FieldDesign::extract *)

\* C11: every error returned by extract, on every failure path, names both
\* the title of the offending field and the datatype it was checked against.
C11_ErrorsNameFieldAndType ==
    (Returned /\ ~Res.ok) =>
        /\ Res.err.title = Some(field.field_design_title)
        /\ Res.err.datatype = Some(field.datatype)

\* C11 for the two paths whose message has both: the JSON cast and the
\* narrowing
C11_CastAndDownsize ==
    (Returned /\ ~Res.ok /\ Res.err.kind \in {"cast", "downsize"}) =>
        /\ Res.err.title = Some(field.field_design_title)
        /\ Res.err.datatype = Some(field.datatype)

----------------------------------------------------------------------------
(* Properties of the Database that from_schema builds *)

\* the fields of the table `user` of the Database returned
UserFields == Unwrap(PRes.db).tables[<<"u","s","e","r">>].fields

\* C12: end-to-end parse. For the DDL that opens table `user`, declares `id`
\* as int unsigned auto_increment and `email` as varchar(110) not null, and
\* then has a PRIMARY KEY (`id`) line, from_schema succeeds and the result
\* has a table user with exactly the fields id and email, where id.primary,
\* id.generated and email.required are true and email.characters = 110.
C12_EndToEndParse ==
    (Ended_ /\ lines_read = Some(UserSchema)) =>
        /\ PRes.status = "Ok"
        /\ DOMAIN Unwrap(PRes.db).tables = {<<"u","s","e","r">>}
        /\ DOMAIN UserFields = {<<"i","d">>, <<"e","m","a","i","l">>}
        /\ UserFields[<<"i","d">>].primary
        /\ UserFields[<<"i","d">>].generated
        /\ UserFields[<<"e","m","a","i","l">>].required
        /\ UserFields[<<"e","m","a","i","l">>].characters = Some(110)

\* C12 witness: from_schema has returned Ok after the four lines of the
\* schema of the user table, and the user table has the field email
C12_Witness ==
    /\ Ended_
    /\ lines_read = Some(UserSchema)
    /\ lineno = 4
    /\ PRes.status = "Ok"
    /\ <<"e","m","a","i","l">> \in DOMAIN UserFields

\* the line src with its keywords in lower case (the identifiers of the
\* lines of SchemaLines are in lower case already)
LowerKeywords(src) == ToAsciiLowercase(src)

\* the loop body does the same on the lines a and b, from the locals as they
\* are: the same locals after it and the same way of taking the line
SameEffect(a, b) ==
    LET on_a == LoopBody(reading, table_title, db, a)
        on_b == LoopBody(reading, table_title, db, b)
    IN  /\ on_a.reading = on_b.reading
        /\ on_a.table_title = on_b.table_title
        /\ on_a.db = on_b.db
        /\ on_a.outcome = on_b.outcome

\* C13: DDL keyword matching is case-insensitive. A table-start line is
\* recognised whatever the letter case of CREATE TABLE, and PRIMARY KEY,
\* NOT NULL, UNSIGNED, AUTO_INCREMENT and the type descriptors have the same
\* effect in any letter case: wherever from_schema is in a text, a line and
\* the same line with its keywords in lower case do the same.
C13_KeywordCase ==
    ppc = "loop" =>
        \A src \in SchemaLines : SameEffect(src, LowerKeywords(src))

\* C13 for the lines that are not table-start lines
C13_ColumnKeywords ==
    ppc = "loop" =>
        \A src \in SchemaLines \ {LineCreateUser, LineCreateRole,
                                  LineCreateUnnamed} :
            SameEffect(src, LowerKeywords(src))

----------------------------------------------------------------------------
(* The generator of TypeScript types (FieldDesign::export,                 *)
(* TableDesign::export, Database::export).  A text is the sequence of its  *)
(* lines, each of them ended by "\n" in the file.                          *)

\* the error of an export: its kind and the field title its message names
ExportError(kind, title) == [kind |-> kind, title |-> title]

\* char::to_uppercase, for the ASCII letters
ToUpperChar(c) ==
    IF \E i \in 1..26 : LowerChars[i] = c
    THEN UpperChars[CHOOSE i \in 1..26 : LowerChars[i] = c]
    ELSE c

\* capitalize: the string with its first letter in upper case; an empty
\* string is an error
capitalize(s) ==
    IF s = <<>> THEN Err(ExportError("capitalize", None))
    ELSE Ok(<<ToUpperChar(Head(s))>> \o Tail(s))

\* DataType::typescript: the TypeScript type of a datatype
typescript(datatype) ==
    CASE datatype = "String" -> <<"s","t","r","i","n","g">>
      [] datatype = "Set" -> <<"s","t","r","i","n","g">>
      [] datatype = "Boolean" -> <<"b","o","o","l">>
      [] datatype = "Json" -> <<"a","n","y">>
      [] datatype = "ByteString" -> <<"n","u","m","b","e","r","[","]">>
      [] OTHER -> <<"n","u","m","b","e","r">>

\* enum_name(table_name, field_name)
enum_name(table_name, field_name) ==
    LET t == capitalize(table_name)
        f == capitalize(field_name)
    IN  IF ~t.ok THEN t
        ELSE IF ~f.ok THEN f
        ELSE Ok(t.val \o f.val \o <<"E","n","u","m">>)

\* FieldDesign::export without the `?` of the fields that may be left out
FieldDesignExportAllRequired(f, is_input, override_name) ==
    LET name == IF IsSome(override_name) THEN Unwrap(override_name)
                ELSE typescript(f.datatype)
    IN  <<" "," ">> \o f.field_design_title \o <<":"," ">> \o name \o <<",">>

\* FieldDesign::export(input, override_name): the line of the field
FieldDesignExport(f, is_input, override_name) ==
    LET name == IF IsSome(override_name) THEN Unwrap(override_name)
                ELSE typescript(f.datatype)
    IN  <<" "," ">> \o f.field_design_title
            \o (IF (is_input /\ f.generated) \/ ~f.required
                THEN <<"?">> ELSE <<>>)
            \o <<":"," ">> \o name \o <<",">>

\* FieldDesign::export_type(table_name): the lines of the enum declaration
export_type(f, table_name) ==
    LET name == enum_name(table_name, f.field_design_title)
        set == Unwrap(f.enum_set)
    IN  IF ~name.ok THEN name
        ELSE IF f.datatype # "Enum"
        THEN Err(ExportError("not_enum", Some(f.field_design_title)))
        ELSE IF IsNone(f.enum_set)
        THEN Err(ExportError("no_enum_set", Some(f.field_design_title)))
        ELSE Ok(<<<<"e","x","p","o","r","t"," ","e","n","u","m",
              " ">> \o name.val \o <<" ","{">>>>
                \o [index \in 1..Len(set) |->
                        <<" "," ">> \o set[index]
                            \o (IF index - 1 < Len(set) - 1
                                THEN <<",">> ELSE <<>>)]
                \o <<<<"}">>>>)

RECURSIVE CreateNamesLoop(_, _, _, _)
\* the loop of create_names over the fields `ks` still to visit, with
\* seen_enums = seen and the lines put out so far
CreateNamesLoop(t, ks, seen, output) ==
    IF ks = <<>> THEN Ok(output)
    ELSE LET f == t.fields[Head(ks)]
             title == capitalize(t.table_design_title)
             decl == export_type(f, t.table_design_title)
         IN  IF f.datatype # "Enum"
             THEN CreateNamesLoop(t, Tail(ks), seen, output)
             ELSE IF IsNone(f.enum_set)
             THEN Err(ExportError("no_enum_set", Some(f.field_design_title)))
             ELSE IF Unwrap(f.enum_set) \in seen
             THEN CreateNamesLoop(t, Tail(ks), seen, output)
             ELSE IF ~title.ok THEN title
             ELSE IF ~decl.ok THEN decl
             ELSE CreateNamesLoop(t, Tail(ks),
                      seen \cup {Unwrap(f.enum_set)},
                      output
                        \o <<<<"/","*","*"," ","G","e","n","e","r","a","t",
                              "e","d"," ","e","n","u","m"," ","t","y","p","e",
                                    " ","f","o","r"," ","t","h","e"," ">>
                               \o title.val \o <<" ","t","a","b","l","e",".",
                                     " ","*","/">>>>
                        \o decl.val)

\* create_names without seen_enums: a declaration for every Enum field
create_namesPerField(t) ==
    LET RECURSIVE Loop(_, _)
        Loop(ks, output) ==
            IF ks = <<>> THEN Ok(output)
            ELSE LET f == t.fields[Head(ks)]
                     title == capitalize(t.table_design_title)
                     decl == export_type(f, t.table_design_title)
                 IN  IF f.datatype # "Enum" THEN Loop(Tail(ks), output)
                     ELSE IF ~title.ok THEN title
                     ELSE IF ~decl.ok THEN decl
                     ELSE Loop(Tail(ks),
                              output
                                \o <<<<"/","*","*"," ","G","e","n","e","r",
                                      "a","t","e","d"," ","e","n","u","m"," ",
                                            "t","y","p","e"," ","f","o","r",
                                                  " ","t","h","e"," ">>
                                       \o title.val \o <<" ","t","a","b","l",
                                             "e","."," ","*","/">>>>
                                \o decl.val)
    IN  Loop(Keys(t.fields), <<>>)

\* TableDesign::create_names
create_names(t) == CreateNamesLoop(t, Keys(t.fields), {}, <<>>)

RECURSIVE FieldLines(_, _, _)
\* the loop of TableDesign::export over the fields `ks`: the lines of the
\* fields for the stored interface (is_input false) or the input interface
FieldLines(t, ks, is_input) ==
    IF ks = <<>> THEN Ok(<<>>)
    ELSE LET f == t.fields[Head(ks)]
             name == enum_name(t.table_design_title, f.field_design_title)
             rest == FieldLines(t, Tail(ks), is_input)
         IN  IF f.datatype = "Enum" /\ ~name.ok THEN name
             ELSE IF ~rest.ok THEN rest
             ELSE Ok(<<FieldDesignExport(f, is_input,
                          IF f.datatype = "Enum" THEN Some(name.val)
                          ELSE None)>> \o rest.val)

\* TableDesign::export(folder): the lines written to folder/<title>.ts, or
\* the error; `writable` tells whether std::fs::write can write the file
TableDesignExport(t, writable) ==
    LET title == capitalize(t.table_design_title)
        stored == FieldLines(t, Keys(t.fields), FALSE)
        inputs == FieldLines(t, Keys(t.fields), TRUE)
        names == create_names(t)
    IN  IF ~title.ok THEN title
        ELSE IF ~stored.ok THEN stored
        ELSE IF ~names.ok THEN names
        ELSE IF ~writable THEN Err(ExportError("write", None))
        ELSE Ok(<<<<"/","*","*"," ","G","e","n","e","r","a","t","e","d"," ",
              "d","a","t","a","b","a","s","e"," ","t","y","p","e"," ","f","o",
                    "r"," ","t","h","e"," ">> \o title.val
                     \o <<" ","t","a","b","l","e","."," ","*","/">>,
                  <<"e","x","p","o","r","t"," ","i","n","t","e","r","f","a",
                        "c","e"," ">> \o title.val \o <<" ","{">>>>
                \o stored.val
                \o <<<<"}">>, <<>>,
                     <<"/","*","*"," ","G","e","n","e","r","a","t","e","d",
                           " ","d","a","t","a","b","a","s","e"," ","t","y",
                                 "p","e"," ","f","o","r"," ","t","h","e",
                                       " ">> \o title.val
                        \o <<" ","t","a","b","l","e","."," ","(","I","n","p",
                              "u","t"," ","v","e","r","s","i","o","n",")"," ",
                                    "*","/">>,
                     <<"e","x","p","o","r","t"," ","i","n","t","e","r","f",
                           "a","c","e"," ">> \o title.val \o <<"I","n","p",
                                 "u","t"," ","{">>>>
                \o inputs.val
                \o <<<<"}">>, <<>>>>
                \o names.val)

----------------------------------------------------------------------------
(* The specification of a call of Database::export *)

\* the field x of the tables exported: a String field, required or not and
\* generated or not, or a required Enum field with no, one or two labels
ExportFieldsX ==
    {[FieldDesignNew(<<"x">>) EXCEPT !.required = r, !.generated = g] :
        r \in BOOLEAN, g \in BOOLEAN}
    \cup {[FieldDesignNew(<<"x">>) EXCEPT !.datatype = "Enum",
                                          !.required = TRUE, !.enum_set = e] :
            e \in {None, Some(<<<<"p">>>>), Some(<<<<"p">>, <<"q">>>>)}}

\* the field y of the tables exported
ExportFieldsY ==
    {[FieldDesignNew(<<"y">>) EXCEPT !.required = TRUE, !.generated = TRUE]}
    \cup {[FieldDesignNew(<<"y">>) EXCEPT !.datatype = "Enum",
          !.enum_set = e] :
            e \in {None, Some(<<<<"p">>>>), Some(<<<<"p">>, <<"q">>>>)}}

\* the tables titled `title` with no field, the field x, or the fields x and y
ExportTables(title) ==
    LET t == TableDesignNew(title)
    IN  {t} \cup {TableAdd(t, x) : x \in ExportFieldsX}
        \cup {TableAdd(TableAdd(t, x), y) :
                x \in ExportFieldsX, y \in ExportFieldsY}

\* two tables titled `title`: one with a String field x, and one with an
\* Enum field y without enum_set, whose export fails
PlainTables(title) ==
    LET t == TableDesignNew(title)
    IN  {TableAdd(t, FieldDesignNew(<<"x">>)),
         TableAdd(t, [FieldDesignNew(<<"y">>) EXCEPT !.datatype = "Enum"])}

\* the Databases exported: a table role, and maybe the tables session and
\* team, and maybe a table with an empty title
ExportDatabases ==
    LET some(ts) == {Some(t) : t \in ts} \cup {None}
        with(d, o) == IF IsSome(o) THEN DatabaseAdd(d, Unwrap(o)) ELSE d
    IN  {with(with(with(DatabaseAdd(DatabaseNew, r), s), t), e) :
            r \in ExportTables(<<"r","o","l","e">>),
            s \in some(PlainTables(<<"s","e","s","s","i","o","n">>)),
            t \in some(PlainTables(<<"t","e","a","m">>)),
            e \in some({TableDesignNew(<<>>)})}

\* the state of export after check_path(folder)? has passed
InitExport ==
    /\ exported \in ExportDatabases
    /\ can_write \in SUBSET ((DOMAIN exported.tables) \ {<<>>})
    /\ tables_left = Keys(exported.tables)
    /\ files = EmptyMap
    /\ exports = <<>>
    /\ err_message = Ok(<<>>)
    /\ xresult = None
    /\ xpc = "loop"
    /\ IdleExtract /\ IdleTable /\ IdleParse /\ IdleUnwrap

\* the loop body keeping the first error instead of the last
ErrMessageFirst(current, res) ==
    IF ~res.ok /\ current.ok THEN Err(res.err) ELSE current

\* `if result.is_err() { err_message = result; }`
ErrMessage(current, res) ==
    IF ~res.ok THEN Err(res.err) ELSE current

\* one iteration of `for table in self.tables.values()`
ExportTable ==
    /\ xpc = "loop"
    /\ tables_left # <<>>
    /\ LET title == Head(tables_left)
           res == TableDesignExport(exported.tables[title],
                                    title \in can_write)
       IN  /\ exports' = Append(exports, [title |-> title, res |-> res])
           /\ files' = IF res.ok THEN Insert(files, title, res.val) ELSE files
           /\ err_message' = ErrMessage(err_message, res)
    /\ tables_left' = Tail(tables_left)
    /\ UNCHANGED <<exported, can_write, xresult, xpc, evars, tvars, pvars,
                   uvars>>

\* the tables are exhausted: export returns err_message
ExportReturn ==
    /\ xpc = "loop"
    /\ tables_left = <<>>
    /\ xresult' = Some(err_message)
    /\ xpc' = "done"
    /\ UNCHANGED <<exported, can_write, tables_left, files, exports,
                   err_message, evars, tvars, pvars, uvars>>

NextExport == ExportTable \/ ExportReturn

SpecExport == InitExport /\ [][NextExport]_vars

----------------------------------------------------------------------------
(* Properties of the generated types *)

\* the positions of the lines of a file that open an interface
InterfaceHeaders(file) ==
    {i \in 1..Len(file) : StartsWithStr(file[i], <<"e","x","p","o","r","t",
          " ","i","n","t","e","r","f","a","c","e"," ">>)}

\* the lines of the block opened at line i of a file: those up to the next
\* line that is a closing brace
BlockAt(file, i) ==
    LET close == CHOOSE j \in (i + 1)..Len(file) :
                     /\ file[j] = <<"}">>
                     /\ \A k \in (i + 1)..(j - 1) : file[k] # <<"}">>
    IN  SubSeq(file, i + 1, close - 1)

\* the stored interface is the first of a file, the input interface the last
StoredInterface(file) ==
    BlockAt(file, CHOOSE i \in InterfaceHeaders(file) :
                      \A j \in InterfaceHeaders(file) : i <= j)
InputInterface(file) ==
    BlockAt(file, CHOOSE i \in InterfaceHeaders(file) :
                      \A j \in InterfaceHeaders(file) : i >= j)

\* what a field line declares, between its indentation and its colon: the
\* title of the field, with a question mark after it if it may be left out
Declared(l) == Slice(l, 2, Unwrap(index_of(l, <<":">>)))
IsOptional(l) == Declared(l)[Len(Declared(l))] = "?"
DeclaredTitle(l) ==
    IF IsOptional(l) THEN SubSeq(Declared(l), 1, Len(Declared(l)) - 1)
    ELSE Declared(l)

\* C14: optionality in the generated interfaces. For every field of a table
\* exported, the field is marked optional (?) in the stored interface iff it
\* is not required, and in the input interface iff it is not required or it
\* is generated; both interfaces list the same fields in the same order.
C14_Optionality ==
    \A i \in 1..Len(exports) :
        exports[i].res.ok =>
            LET t == exported.tables[exports[i].title]
                ks == Keys(t.fields)
                stored == StoredInterface(files[exports[i].title])
                inputs == InputInterface(files[exports[i].title])
            IN  /\ Cardinality(InterfaceHeaders(files[exports[i].title])) = 2
                /\ Len(stored) = Len(ks)
                /\ Len(inputs) = Len(ks)
                /\ \A k \in 1..Len(ks) :
                    LET f == t.fields[ks[k]]
                    IN  /\ DeclaredTitle(stored[k]) = f.field_design_title
                        /\ DeclaredTitle(inputs[k]) = f.field_design_title
                        /\ IsOptional(stored[k]) <=> ~f.required
                        /\ IsOptional(inputs[k])
                               <=> (~f.required \/ f.generated)

\* C14 witness: the table role has been exported with a field x that is
\* required and generated, and a second field
C14_Witness ==
    /\ xpc = "done"
    /\ \E i \in 1..Len(exports) :
        /\ exports[i].title = <<"r","o","l","e">>
        /\ exports[i].res.ok
        /\ exports[i].title \in DOMAIN files
        /\ DOMAIN exported.tables[exports[i].title].fields = {<<"x">>,
              <<"y">>}
        /\ exported.tables[exports[i].title].fields[<<"x">>].required
        /\ exported.tables[exports[i].title].fields[<<"x">>].generated

\* the positions of the lines of a file that open an enum declaration
EnumDeclarations(file) ==
    {i \in 1..Len(file) : StartsWithStr(file[i], <<"e","x","p","o","r","t",
          " ","e","n","u","m"," ">>)}

\* the distinct enum_set label lists of the Enum fields of a table
EnumSets(t) ==
    {t.fields[k].enum_set : k \in {k \in DOMAIN t.fields :
                                       t.fields[k].datatype = "Enum"}}

\* C15: enum deduplication. For every table exported, the number of enum
\* type declarations emitted equals the number of distinct enum_set label
\* lists (compared by value) among the Enum fields of the table; two fields
\* with an identical enum_set produce exactly one declaration.
C15_EnumDedup ==
    \A i \in 1..Len(exports) :
        exports[i].res.ok =>
            Cardinality(EnumDeclarations(files[exports[i].title]))
                = Cardinality(EnumSets(exported.tables[exports[i].title]))

\* C15 witness: the table role has been exported with two Enum fields that
\* have the same enum_set, and its file has one enum declaration
C15_Witness ==
    /\ xpc = "done"
    /\ \E i \in 1..Len(exports) :
        LET t == exported.tables[exports[i].title]
        IN  /\ exports[i].title = <<"r","o","l","e">>
            /\ exports[i].res.ok
            /\ DOMAIN t.fields = {<<"x">>, <<"y">>}
            /\ t.fields[<<"x">>].datatype = "Enum"
            /\ t.fields[<<"y">>].datatype = "Enum"
            /\ t.fields[<<"x">>].enum_set = Some(<<<<"p">>, <<"q">>>>)
            /\ t.fields[<<"y">>].enum_set = t.fields[<<"x">>].enum_set
            /\ Cardinality(EnumDeclarations(files[exports[i].title])) = 1

----------------------------------------------------------------------------
(* Properties of Database::export *)

\* the positions of the tables visited whose export failed
FailedExports == {i \in 1..Len(exports) : ~exports[i].res.ok}

----------------------------------------------------------------------------
(* The JSON snapshot (derive(Serialize, Deserialize) of FieldDesign,       *)
(* TableDesign and Database)                                               *)

\* the orders in which the elements of a HashSet may be visited
Orderings(set) ==
    {o \in [1..Cardinality(set) -> set] :
        \A i, j \in 1..Cardinality(set) : o[i] = o[j] => i = j}

\* Serialize for Vec<String> and, given the order of its elements, HashSet
StringsToJson(list) == JArr([i \in 1..Len(list) |-> JStr(list[i])])

\* the keys of a FieldDesign that are always written
FieldKeys ==
    {<<"f","i","e","l","d","_","d","e","s","i","g","n","_","t","i","t","l",
          "e">>, <<"d","a","t","a","t","y","p","e">>, <<"p","r","i","m","a",
                "r","y">>, <<"u","n","i","q","u","e">>, <<"r","e","q","u","i",
                      "r","e","d">>,
     <<"i","n","c","r","e","m","e","n","t">>, <<"g","e","n","e","r","a","t",
           "e","d">>}

\* the keys skipped by skip_serializing_if = "Option::is_none", with the
\* attribute each of them holds
OptionKeys(f) ==
    [k \in {<<"b","y","t","e","s">>, <<"c","h","a","r","a","c","t","e","r",
          "s">>, <<"d","e","c","i","m","a","l","s">>, <<"r","e","g","e","x">>,
                <<"f","o","r","e","i","g","n">>,
            <<"e","n","u","m","_","s","e","t">>, <<"s","e","t">>} |->
        CASE k = <<"b","y","t","e","s">> -> f.bytes
          [] k = <<"c","h","a","r","a","c","t","e","r","s">> -> f.characters
          [] k = <<"d","e","c","i","m","a","l","s">> -> f.decimals
          [] k = <<"r","e","g","e","x">> -> f.regex
          [] k = <<"f","o","r","e","i","g","n">> -> f.foreign
          [] k = <<"e","n","u","m","_","s","e","t">> -> f.enum_set
          [] k = <<"s","e","t">> -> f.set]

\* Serialize for FieldDesign, were every Option attribute skipped
FieldDesignSerializeSkipAll(f, set_order) ==
    JObj([k \in FieldKeys |->
            CASE k = <<"f","i","e","l","d","_","d","e","s","i","g","n","_",
                  "t","i","t","l","e">>
                     -> JStr(f.field_design_title)
              [] k = <<"d","a","t","a","t","y","p","e">> -> JStr(f.datatype)
              [] k = <<"p","r","i","m","a","r","y">> -> JBool(f.primary)
              [] k = <<"u","n","i","q","u","e">> -> JBool(f.unique)
              [] k = <<"r","e","q","u","i","r","e","d">> -> JBool(f.required)
              [] k = <<"i","n","c","r","e","m","e","n",
                    "t">> -> JBool(f.increment)
              [] k = <<"g","e","n","e","r","a","t","e",
                    "d">> -> JBool(f.generated)])

\* Serialize for FieldDesign, the elements of `set` written in set_order
FieldDesignSerialize(f, set_order) ==
    LET present == {k \in DOMAIN OptionKeys(f) : IsSome(OptionKeys(f)[k])}
    IN  JObj([k \in FieldKeys \cup present |->
            CASE k = <<"f","i","e","l","d","_","d","e","s","i","g","n","_",
                  "t","i","t","l","e">> -> JStr(f.field_design_title)
              [] k = <<"d","a","t","a","t","y","p","e">> -> JStr(f.datatype)
              [] k = <<"p","r","i","m","a","r","y">> -> JBool(f.primary)
              [] k = <<"u","n","i","q","u","e">> -> JBool(f.unique)
              [] k = <<"r","e","q","u","i","r","e","d">> -> JBool(f.required)
              [] k = <<"i","n","c","r","e","m","e","n",
                    "t">> -> JBool(f.increment)
              [] k = <<"g","e","n","e","r","a","t","e",
                    "d">> -> JBool(f.generated)
              [] k = <<"b","y","t","e","s">> -> JInt(Unwrap(f.bytes))
              [] k = <<"c","h","a","r","a","c","t","e","r",
                    "s">> -> JInt(Unwrap(f.characters))
              [] k = <<"d","e","c","i","m","a","l",
                    "s">> -> JInt(Unwrap(f.decimals))
              [] k = <<"r","e","g","e","x">> -> JStr(Unwrap(f.regex))
              [] k = <<"f","o","r","e","i","g",
                    "n">> -> JStr(Unwrap(f.foreign))
              [] k = <<"e","n","u","m","_","s","e",
                    "t">> -> StringsToJson(Unwrap(f.enum_set))
              [] k = <<"s","e","t">> -> StringsToJson(set_order)])

\* the snapshots of a FieldDesign: one for each order of its set
FieldDesignSnapshots(f) ==
    {FieldDesignSerialize(f, o) :
        o \in IF IsSome(f.set) THEN Orderings(Unwrap(f.set)) ELSE {<<>>}}

\* the snapshots of a TableDesign
TableDesignSnapshots(t) ==
    LET all == UNION {FieldDesignSnapshots(t.fields[k]) : k \in DOMAIN t.fields}
    IN  {JObj([k \in {<<"t","a","b","l","e","_","d","e","s","i","g","n","_",
          "t","i","t","l","e">>, <<"f","i","e","l","d","s">>} |->
                 IF k = <<"f","i","e","l","d","s">> THEN JObj(fs)
                 ELSE JStr(t.table_design_title)]) :
            fs \in {g \in [DOMAIN t.fields -> all] :
                      \A k \in DOMAIN t.fields :
                          g[k] \in FieldDesignSnapshots(t.fields[k])}}

\* the snapshots of a Database
DatabaseSnapshots(d) ==
    LET all == UNION {TableDesignSnapshots(d.tables[k]) : k \in DOMAIN d.tables}
    IN  {JObj([k \in {<<"t","i","t","l","e">>, <<"t","a","b","l","e",
          "s">>} |->
                 IF k = <<"t","a","b","l","e",
                       "s">> THEN JObj(ts) ELSE JStr(d.title)]) :
            ts \in {g \in [DOMAIN d.tables -> all] :
                      \A k \in DOMAIN d.tables :
                          g[k] \in TableDesignSnapshots(d.tables[k])}}

\* the isize of a JSON integer
AsIsize(j) ==
    LET w == Unwrap(AsI64(j))
        nat(v) == v[1] + Base * (v[2] + Base * (v[3] + Base * v[4]))
    IN  IF IsNone(AsI64(j)) THEN None
        ELSE IF IsNegative(w) THEN Some(0 - nat(Negate(w)))
        ELSE Some(nat(w))

\* the Vec<String> of a JSON array of strings
AsStrings(j) ==
    IF j.k = "Array" /\ \A i \in 1..Len(j.a) : j.a[i].k = "String"
    THEN Some([i \in 1..Len(j.a) |-> j.a[i].s])
    ELSE None

\* the HashSet<String> of a JSON array of strings
AsStringSet(j) ==
    IF IsSome(AsStrings(j)) THEN Some(into_set(Unwrap(AsStrings(j))))
    ELSE None

\* the DataType of a JSON string that names a variant
AsDataType(j) ==
    IF j.k = "String" /\ j.s \in DataTypes THEN Some(j.s) ELSE None

\* the member of an object under a key, null when there is none: a missing
\* member that is no Option is an error, as a null one is
Lookup(o, key) == IF key \in DOMAIN o THEN o[key] ELSE JNull

\* Deserialize for an Option member j, v being what j is as a value of the
\* type: None when the key is missing or null
OptionMember(j, v) ==
    IF j = JNull THEN Some(None)
    ELSE IF IsSome(v) THEN Some(v)
    ELSE None

\* Deserialize for FieldDesign
FieldDesignDeserialize(j) ==
    LET o == j.o
        parts == [field_design_title |-> AsStr(Lookup(o, <<"f","i","e","l",
              "d","_","d","e","s","i","g","n","_","t","i","t","l","e">>)),
                  datatype |-> AsDataType(Lookup(o, <<"d","a","t","a","t","y",
                        "p","e">>)),
                  bytes |-> OptionMember(Lookup(o, <<"b","y","t","e","s">>),
                      AsIsize(Lookup(o, <<"b","y","t","e","s">>))),
                  characters |-> OptionMember(Lookup(o, <<"c","h","a","r","a",
                        "c","t","e","r","s">>),
                      AsIsize(Lookup(o, <<"c","h","a","r","a","c","t","e","r",
                            "s">>))),
                  decimals |-> OptionMember(Lookup(o, <<"d","e","c","i","m",
                        "a","l","s">>),
                      AsIsize(Lookup(o, <<"d","e","c","i","m","a","l",
                            "s">>))),
                  regex |-> OptionMember(Lookup(o, <<"r","e","g","e","x">>),
                      AsStr(Lookup(o, <<"r","e","g","e","x">>))),
                  primary |-> AsBool(Lookup(o, <<"p","r","i","m","a","r",
                        "y">>)),
                  unique |-> AsBool(Lookup(o, <<"u","n","i","q","u","e">>)),
                  required |-> AsBool(Lookup(o, <<"r","e","q","u","i","r","e",
                        "d">>)),
                  foreign |-> OptionMember(Lookup(o, <<"f","o","r","e","i",
                        "g","n">>),
                      AsStr(Lookup(o, <<"f","o","r","e","i","g","n">>))),
                  increment |-> AsBool(Lookup(o, <<"i","n","c","r","e","m",
                        "e","n","t">>)),
                  generated |-> AsBool(Lookup(o, <<"g","e","n","e","r","a",
                        "t","e","d">>)),
                  enum_set |-> OptionMember(Lookup(o, <<"e","n","u","m","_",
                        "s","e","t">>),
                      AsStrings(Lookup(o, <<"e","n","u","m","_","s","e",
                            "t">>))),
                  set |-> OptionMember(Lookup(o, <<"s","e","t">>),
                      AsStringSet(Lookup(o, <<"s","e","t">>)))]
    IN  IF j.k # "Object" THEN Err("invalid type")
        ELSE IF \E a \in DOMAIN parts : IsNone(parts[a])
        THEN Err("invalid or missing field")
        ELSE Ok([a \in DOMAIN parts |-> Unwrap(parts[a])])

\* Deserialize for BTreeMap<String, FieldDesign>
FieldsDeserialize(j) ==
    IF j.k # "Object" THEN Err("invalid type")
    ELSE IF \E k \in DOMAIN j.o : ~FieldDesignDeserialize(j.o[k]).ok
    THEN Err("invalid value")
    ELSE Ok([k \in DOMAIN j.o |-> FieldDesignDeserialize(j.o[k]).val])

\* Deserialize for TableDesign
TableDesignDeserialize(j) ==
    LET title == AsStr(Lookup(j.o, <<"t","a","b","l","e","_","d","e","s","i",
          "g","n","_","t","i","t","l","e">>))
        fields == FieldsDeserialize(Lookup(j.o, <<"f","i","e","l","d","s">>))
    IN  IF j.k # "Object" THEN Err("invalid type")
        ELSE IF IsNone(title) \/ <<"f","i","e","l","d","s">> \notin DOMAIN j.o
        THEN Err("invalid or missing field")
        ELSE IF ~fields.ok THEN fields
        ELSE Ok([table_design_title |-> Unwrap(title), fields |-> fields.val])

\* Deserialize for BTreeMap<String, TableDesign>
TablesDeserialize(j) ==
    IF j.k # "Object" THEN Err("invalid type")
    ELSE IF \E k \in DOMAIN j.o : ~TableDesignDeserialize(j.o[k]).ok
    THEN Err("invalid value")
    ELSE Ok([k \in DOMAIN j.o |-> TableDesignDeserialize(j.o[k]).val])

\* Deserialize for Database
DatabaseDeserialize(j) ==
    LET title == AsStr(Lookup(j.o, <<"t","i","t","l","e">>))
        tables == TablesDeserialize(Lookup(j.o, <<"t","a","b","l","e","s">>))
    IN  IF j.k # "Object" THEN Err("invalid type")
        ELSE IF IsNone(title) \/ <<"t","a","b","l","e","s">> \notin DOMAIN j.o
        THEN Err("invalid or missing field")
        ELSE IF ~tables.ok THEN tables
        ELSE Ok([title |-> Unwrap(title), tables |-> tables.val])

\* C17: snapshot round-trip. For every Database produced by a successful
\* parse, and every TableDesign of it, serializing it to the JSON snapshot
\* and deserializing the snapshot yields a value equal to the original,
\* the fields with absent optional attributes included.
C17_SnapshotRoundTrip ==
    (Ended_ /\ PRes.status = "Ok") =>
        /\ \A j \in DatabaseSnapshots(Unwrap(PRes.db)) :
               DatabaseDeserialize(j) = Ok(Unwrap(PRes.db))
        /\ \A k \in DOMAIN Unwrap(PRes.db).tables :
               \A j \in TableDesignSnapshots(Unwrap(PRes.db).tables[k]) :
                   TableDesignDeserialize(j) = Ok(Unwrap(PRes.db).tables[k])

\* C17 witness: from_schema has returned a Database with a field that has
\* characters and no bytes, whose snapshot leaves the key bytes out
C17_Witness ==
    /\ Ended_ /\ PRes.status = "Ok"
    /\ \E k \in DOMAIN Unwrap(PRes.db).tables :
        \E n \in DOMAIN Unwrap(PRes.db).tables[k].fields :
            LET f == Unwrap(PRes.db).tables[k].fields[n]
            IN  /\ IsSome(f.characters) /\ IsNone(f.bytes)
                /\ \A j \in FieldDesignSnapshots(f) :
                       /\ <<"c","h","a","r","a","c","t","e","r",
                             "s">> \in DOMAIN j.o
                       /\ <<"b","y","t","e","s">> \notin DOMAIN j.o

----------------------------------------------------------------------------
(* Properties of the steps of Database::from_schema *)

\* the for loop reads a line in this step
ReadsLine == ppc = "loop" /\ lineno' = lineno + 1

\* how the loop body took the line read in this step
Outcome == outcomes'[Len(outcomes')]

\* the line is a table-start line
IsTableStart(src) == Contains(Trim(src), <<"C","R","E","A","T","E"," ","T",
      "A","B","L","E">>)

\* the lines read so far leave no table open: each table-start line was
\* followed by a closing line
OutsideTable ==
    \A i \in 1..Len(outcomes) :
        outcomes[i] = "Table" =>
            \E j \in (i + 1)..Len(outcomes) : outcomes[j] = "Close"

\* C18: lines outside a table are never treated as column lines. Every line
\* that is read before the first table-start line, or between a closing line
\* and the next table-start line, and is no table-start line itself, adds no
\* field, changes no flag and raises no error, whatever its content.
C18_OutsideTable ==
    [][(ReadsLine /\ OutsideTable /\ ~IsTableStart(Unwrap(line'))) =>
          /\ db' = db
          /\ table_title' = table_title
          /\ ~reading'
          /\ ppc' = "loop" /\ presult' = None]_vars

\* C18 witness: after a table was opened and closed, the line `id`, which
\* has no type descriptor, has been read and skipped
C18_Witness ==
    /\ ppc = "loop"
    /\ outcomes = <<"Table", "Close", "Skip">>
    /\ line = Some(LineBare)
    /\ ~reading

\* the table a table-start line of SchemaLines names
TableNamed(src) ==
    CASE src = LineCreateUser -> <<"u","s","e","r">>
      [] src = LineCreateRole -> <<"r","o","l","e">>

\* the column lines of SchemaLines that add_to_db accepts, and the field
\* each of them declares
ColumnLines ==
    {LineId, LineEmail, LineKind, LineKindGap, LineTags, LineTagsGap}
FieldDeclared(src) ==
    CASE src = LineId -> <<"i","d">>
      [] src = LineEmail -> <<"e","m","a","i","l">>
      [] src = LineKind -> <<"k","i","n","d">>
      [] src = LineKindGap -> <<"k","i","n","d">>
      [] src = LineTags -> <<"t","a","g","s">>
      [] src = LineTagsGap -> <<"t","a","g","s">>

\* C19: a table-start line implicitly ends the table that was open. After a
\* CREATE TABLE line naming T is read, whether or not a closing line came
\* before it, the Database contains a table T, and every column line read
\* from then until the next closing or table-start line adds its field to T
\* and modifies no other table.
C19_ImplicitEnd ==
    [][ReadsLine =>
          /\ Outcome = "Table" =>
              /\ table_title' = TableNamed(Unwrap(line'))
              /\ table_title' \in DOMAIN db'.tables
              /\ reading'
          /\ Outcome \notin {"Table", "Err"} =>
              /\ table_title' = table_title
              /\ Outcome # "Close" => reading' = reading
          /\ (reading /\ Outcome = "Ok") =>
              /\ DOMAIN db'.tables = DOMAIN db.tables
              /\ \A k \in DOMAIN db.tables \ {table_title} :
                     db'.tables[k] = db.tables[k]
              /\ Unwrap(line') \in ColumnLines =>
                     FieldDeclared(Unwrap(line'))
                         \in DOMAIN db'.tables[table_title].fields]_vars

\* C19 witness: the table role was opened while the table user was open,
\* and the column line read after it has added its field to role and not
\* to user
C19_Witness ==
    /\ outcomes = <<"Table", "Ok", "Table", "Ok">>
    /\ line = Some(LineEmail)
    /\ table_title = <<"r","o","l","e">>
    /\ DOMAIN db.tables = {<<"u","s","e","r">>, <<"r","o","l","e">>}
    /\ DOMAIN db.tables[<<"u","s","e","r">>].fields = {<<"i","d">>}
    /\ DOMAIN db.tables[<<"r","o","l","e">>].fields = {<<"e","m","a","i",
          "l">>}

\* the line is the primary-key line of the field n, a column line that
\* declares the field n
NamesPrimary(src, n) == src = LinePrimary /\ n = <<"i","d">>
Declares(src, n) == src \in ColumnLines /\ FieldDeclared(src) = n

\* C20: a primary-key line that names an existing field f of the table
\* currently open sets f.primary = true and changes nothing else: it adds
\* no field, removes no field, and leaves every other attribute of f and
\* every attribute of every other field and table unchanged. This is the
\* only way the parser modifies a field after adding it: in any other step a
\* field stays as it is, unless a column line declares its title anew or a
\* table-start line opens its table anew.
C20_PrimaryKeyLine ==
    [][ReadsLine =>
          /\ \A n \in {<<"i","d">>} :
              (/\ NamesPrimary(Unwrap(line'), n)
               /\ reading
               /\ n \in DOMAIN db.tables[table_title].fields) =>
                  /\ Outcome = "Ok"
                  /\ DOMAIN db'.tables = DOMAIN db.tables
                  /\ \A k \in DOMAIN db.tables \ {table_title} :
                         db'.tables[k] = db.tables[k]
                  /\ db'.tables[table_title].table_design_title
                         = db.tables[table_title].table_design_title
                  /\ DOMAIN db'.tables[table_title].fields
                         = DOMAIN db.tables[table_title].fields
                  /\ \A m \in DOMAIN db.tables[table_title].fields \ {n} :
                         db'.tables[table_title].fields[m]
                             = db.tables[table_title].fields[m]
                  /\ db'.tables[table_title].fields[n]
                         = [db.tables[table_title].fields[n]
                               EXCEPT !.primary = TRUE]
          /\ \A k \in DOMAIN db.tables :
                \A n \in DOMAIN db.tables[k].fields :
                    \/ Outcome = "Table" /\ table_title' = k
                    \/ Declares(Unwrap(line'), n) /\ reading
                           /\ table_title = k
                    \/ /\ k \in DOMAIN db'.tables
                       /\ n \in DOMAIN db'.tables[k].fields
                       /\ \/ db'.tables[k].fields[n] = db.tables[k].fields[n]
                          \/ /\ NamesPrimary(Unwrap(line'), n)
                             /\ reading /\ table_title = k]_vars

\* C20 witness: in the table user with the fields id and email, the line
\* PRIMARY KEY (`id`) has been read: id is primary and email is not
C20_Witness ==
    /\ ppc = "loop"
    /\ line = Some(LinePrimary)
    /\ outcomes[Len(outcomes)] = "Ok"
    /\ reading
    /\ table_title = <<"u","s","e","r">>
    /\ DOMAIN db.tables[<<"u","s","e","r">>].fields = {<<"i","d">>, <<"e","m",
          "a","i","l">>}
    /\ db.tables[<<"u","s","e","r">>].fields[<<"i","d">>].primary
    /\ ~db.tables[<<"u","s","e","r">>].fields[<<"e","m","a","i","l">>].primary

----------------------------------------------------------------------------
(* Primary-key lines that name no field of the open table *)

\* C21: a primary-key line whose identifier does not name a field already
\* declared in the table currently open is a fatal parse error; this
\* includes a field declared only in an earlier table and a field declared
\* later in the same table. The call ends at that line with the error and
\* returns no Database.
C21_UnknownPrimaryKey ==
    [][(/\ ReadsLine
        /\ reading
        /\ \E n \in {<<"i","d">>} :
              /\ NamesPrimary(Unwrap(line'), n)
              /\ n \notin DOMAIN db.tables[table_title].fields) =>
          /\ Outcome = "Err"
          /\ ppc' = "done"
          /\ Unwrap(presult').status = "Err"
          /\ Unwrap(presult').err.kind = "primary_unknown"
          /\ IsNone(Unwrap(presult').db)]_vars

\* C21 witness: id was declared in the table user, the table role was
\* opened, and the line PRIMARY KEY (`id`) read in role has ended the call
\* with the error
C21_Witness ==
    /\ ppc = "done"
    /\ line = Some(LinePrimary)
    /\ outcomes = <<"Table", "Ok", "Table", "Err">>
    /\ table_title = <<"r","o","l","e">>
    /\ DOMAIN db.tables = {<<"u","s","e","r">>, <<"r","o","l","e">>}
    /\ <<"i","d">> \in DOMAIN db.tables[<<"u","s","e","r">>].fields
    /\ db.tables[<<"r","o","l","e">>].fields = EmptyMap
    /\ PRes.err.kind = "primary_unknown"

----------------------------------------------------------------------------
(* Lines that are neither primary-key lines nor column lines *)

\* the line  UNIQUE KEY 'email' ('email'),
LineUnique == <<"U","N","I","Q","U","E"," ","K","E","Y"," ","U+0060","e","m","a",
      "i","l","U+0060"," ","(","U+0060","e","m","a","i","l","U+0060",")",",">>

\* the line  ON DELETE CASCADE,
LineOn == <<"O","N"," ","D","E","L","E","T","E"," ","C","A","S","C","A","D",
      "E",",">>

\* the line  -- contact
LineComment == <<"-","-"," ","c","o","n","t","a","c","t">>

\* non-blank lines whose first token is not `primary` and has no backtick
UnsupportedLines == {LineIndex, LineUnique, LineOn, LineComment}

\* the first token of the line, as add_to_db splits it
FirstToken(src) == NonEmpty(Split(ToAsciiLowercase(Trim(src)), " "))[1]

\* the loop body passes over the line src: no error, and the locals stay as
\* they are
Ignored(src) ==
    LET body == LoopBody(reading, table_title, db, src)
    IN  /\ body.outcome = "Ok"
        /\ body.db = db
        /\ body.reading = reading
        /\ body.table_title = table_title

\* C22: unsupported lines are silently ignored. While a table is open, every
\* non-blank line whose first token is not `primary` and is not
\* backtick-quoted (e.g. an index declaration) causes no error and leaves
\* the table unchanged, whatever the length of its first token.
C22_UnsupportedIgnored ==
    (ppc = "loop" /\ reading) => \A src \in UnsupportedLines : Ignored(src)

\* C22 for the lines whose first token has three bytes or more
C22_LongFirstToken ==
    (ppc = "loop" /\ reading) =>
        \A src \in UnsupportedLines :
            ByteLen(FirstToken(src)) >= 3 => Ignored(src)

----------------------------------------------------------------------------
(* The labels of enum(...) and set(...) descriptors *)

\* the column lines of SchemaLines whose parentheses hold an empty element
EmptyElementLines == {LineKindGap, LineTagsGap}

\* the fields of the table t that have an empty label
EmptyLabelled(t) ==
    {n \in DOMAIN t.fields :
        \/ /\ IsSome(t.fields[n].enum_set)
           /\ \E i \in 1..Len(Unwrap(t.fields[n].enum_set)) :
                  Unwrap(t.fields[n].enum_set)[i] = <<>>
        \/ /\ IsSome(t.fields[n].set)
           /\ <<>> \in Unwrap(t.fields[n].set)}

\* C23: comma-separated list extraction rejects empty elements. For an
\* enum(...) or set(...) descriptor whose parenthesised content has two
\* adjacent commas or a comma immediately after the opening parenthesis, the
\* parse fails with an error; a successful extraction never yields an empty
\* label.
C23_EmptyElementRejected ==
    [][(ReadsLine /\ reading) =>
          /\ Unwrap(line') \in EmptyElementLines =>
                Outcome = "Err" /\ ppc' = "done"
          /\ \A k \in DOMAIN db'.tables : EmptyLabelled(db'.tables[k]) = {}]_vars

\* C23 for the pieces of the list: the labels of a field are the trimmed
\* pieces between the commas, an empty piece included
C23_LabelsArePieces ==
    [][(ReadsLine /\ reading) =>
          /\ Unwrap(line') = LineKindGap =>
              /\ Outcome = "Ok"
              /\ db'.tables[table_title].fields[<<"k","i","n","d">>].enum_set
                     = Some(<< <<"a">>, <<>>, <<"b">> >>)
          /\ Unwrap(line') = LineTagsGap =>
              /\ Outcome = "Ok"
              /\ db'.tables[table_title].fields[<<"t","a","g","s">>].set
                     = Some({<<>>, <<"a">>})]_vars

----------------------------------------------------------------------------
(* The invariant of the schema model *)

\* the field has enum_set iff it is an Enum, and set iff it is a Set
EnumSetConsistent(f) ==
    /\ IsSome(f.enum_set) <=> f.datatype = "Enum"
    /\ IsSome(f.set) <=> f.datatype = "Set"

\* C24: schema-model invariant after parsing. After any sequence of
\* table-start, column, primary-key and closing lines, every field of the
\* Database that from_schema builds, and so of the one it returns, has
\* enum_set present iff its datatype is Enum, and set present iff its
\* datatype is Set.
C24_EnumSetInvariant ==
    /\ \A k \in DOMAIN db.tables :
          \A n \in DOMAIN db.tables[k].fields :
              EnumSetConsistent(db.tables[k].fields[n])
    /\ (Ended_ /\ PRes.status = "Ok") => PRes.db = Some(db)

\* C24 witness: from_schema has returned a Database whose table user has an
\* Enum field with its labels, a Set field with its set, and a String field
\* with neither
C24_Witness ==
    /\ Ended_
    /\ PRes.status = "Ok"
    /\ DOMAIN db.tables = {<<"u","s","e","r">>}
    /\ DOMAIN UserFields = {<<"k","i","n","d">>, <<"t","a","g","s">>,
                            <<"e","m","a","i","l">>}
    /\ UserFields[<<"k","i","n","d">>].datatype = "Enum"
    /\ UserFields[<<"k","i","n","d">>].enum_set = Some(<< <<"a">>, <<"b">> >>)
    /\ UserFields[<<"t","a","g","s">>].datatype = "Set"
    /\ UserFields[<<"t","a","g","s">>].set = Some({<<"a">>, <<"b">>})
    /\ UserFields[<<"e","m","a","i","l">>].datatype = "String"
    /\ IsNone(UserFields[<<"e","m","a","i","l">>].enum_set)

----------------------------------------------------------------------------
(* The order in which TableDesign::test looks at the payload *)

TRes == Unwrap(tresult)

\* the i-th value of the payload is an object with the key n
HasField(i, n) == payload[i].k = "Object" /\ n \in DOMAIN payload[i].o

\* the first value of the payload with the key n, and what extract makes of
\* the member under n of the i-th value
FirstWith(n) ==
    CHOOSE i \in 1..Len(payload) :
        HasField(i, n) /\ \A j \in 1..(i - 1) : ~HasField(j, n)
ExtractOf(i, n) == extract(table.fields[n], payload[i].o[n])

\* the field n is absent from the payload and test declines that
Declined(n) ==
    /\ Absent(n)
    /\ table.fields[n].required
    /\ ~table.fields[n].generated \/ ~input

\* C25: first-match scanning in TableDesign::test. For each declared field,
\* only the first payload object (in sequence order) that contains the
\* field's title is extracted; if that extraction fails the validation fails
\* even when a later object holds a valid value for the same field, and if
\* it succeeds later objects' values for that field are not examined.
C25_FirstMatch ==
    /\ \A i \in 1..Len(visited) :
          LET n == visited[i].key
          IN  ~Absent(n) =>
                  /\ visited[i].matched
                  /\ visited[i].res.ok <=> ExtractOf(FirstWith(n), n).ok
                  /\ ~visited[i].res.ok =>
                        /\ visited[i].res.err = ExtractOf(FirstWith(n), n).err
                        /\ tpc = "done" /\ tresult = Some(visited[i].res)
    /\ tpc = "done" =>
          (TRes.ok <=>
              \A n \in DOMAIN table.fields :
                  /\ ~Absent(n) => ExtractOf(FirstWith(n), n).ok
                  /\ ~Declined(n))

\* C25 witness: the first object has a string under a, the second has a
\* number that the field a accepts, and test has returned the error of the
\* first
C25_Witness ==
    /\ tpc = "done"
    /\ Len(payload) = 2
    /\ <<"a">> \in DOMAIN table.fields
    /\ HasField(1, <<"a">>) /\ HasField(2, <<"a">>)
    /\ ~ExtractOf(1, <<"a">>).ok
    /\ ExtractOf(2, <<"a">>).ok
    /\ ~TRes.ok
    /\ TRes.err = ExtractOf(1, <<"a">>).err

----------------------------------------------------------------------------
(* The specification of a call of unwrap_str *)

\* the largest number of characters of a token
MaxToken == 4

\* the characters of a token: the backtick, a letter and a letter that is
\* not ASCII
TokenAlphabet == {"U+0060", "e", "U+00E9"}

\* the tokens of unwrap_test, and every token of up to MaxToken characters
Tokens ==
    {<<"U+0060", "t", "h", "i", "s", "U+0060">>}
        \cup UNION {[1..n -> TokenAlphabet] : n \in 0..MaxToken}

InitUnwrap ==
    /\ utoken \in Tokens
    /\ uresult = None
    /\ upc = "call"
    /\ IdleExtract /\ IdleTable /\ IdleParse /\ IdleExport

\* unwrap_str(utoken)
UnwrapStr ==
    /\ upc = "call"
    /\ uresult' = Some(unwrap_str(utoken))
    /\ upc' = "done"
    /\ UNCHANGED <<utoken, evars, tvars, pvars, xvars>>

NextUnwrap == UnwrapStr

SpecUnwrap == InitUnwrap /\ [][NextUnwrap]_vars

----------------------------------------------------------------------------
(* Properties of unwrap_str *)

URes == Unwrap(uresult)

\* the positions of the backticks of the token
BacktickPositions(s) == {i \in 1..Len(s) : s[i] = "U+0060"}

\* the text between the first backtick of the token and the next one
Between(s) ==
    LET first == CHOOSE i \in BacktickPositions(s) :
                     \A j \in BacktickPositions(s) : i <= j
        next == CHOOSE i \in BacktickPositions(s) \ {first} :
                    \A j \in BacktickPositions(s) \ {first} : i <= j
    IN  SubSeq(s, first + 1, next - 1)

\* every character of the token is one byte long
IsAscii(s) == \A i \in 1..Len(s) : Utf8Len(s[i]) = 1

\* C26: identifier extraction (unwrap_str). For every token with at least
\* two backticks the result is exactly the text between the first backtick
\* and the next one (so `this` gives this, `e` gives e, and two backticks
\* give the empty string), and every token with fewer than two backticks is
\* rejected with an error.
C26_UnwrapStr ==
    upc = "done" =>
        IF Cardinality(BacktickPositions(utoken)) >= 2
        THEN URes = Ok(Between(utoken))
        ELSE ~URes.ok /\ URes.err.kind # "panic"

\* C26 for the tokens that are ASCII
C26_Ascii ==
    (upc = "done" /\ IsAscii(utoken)) =>
        IF Cardinality(BacktickPositions(utoken)) >= 2
        THEN URes = Ok(Between(utoken))
        ELSE ~URes.ok /\ URes.err.kind # "panic"

\* C26 for the tokens with fewer than two backticks
C26_Rejected ==
    (upc = "done" /\ Cardinality(BacktickPositions(utoken)) < 2) =>
        ~URes.ok /\ URes.err.kind # "panic"

----------------------------------------------------------------------------
(* The type names of the generated interfaces *)

\* the type a field line gives its field: the text between ": " and the
\* comma that ends the line
TypeOf(l) == Slice(l, Unwrap(index_of(l, <<":">>)) + 2, Len(l) - 1)

\* the TypeScript types that need no declaration
BuiltinTypes == {<<"s","t","r","i","n","g">>, <<"b","o","o","l">>, <<"a","n",
      "y">>, <<"n","u","m","b","e","r">>, <<"n","u","m","b","e","r","[","]">>}

\* the names of the enums a file declares: the text between "export enum "
\* and " {"
DeclaredEnums(file) ==
    {Slice(file[i], 12, Len(file[i]) - 2) : i \in EnumDeclarations(file)}

\* every type of a field line of the two interfaces of the file is built in
\* or declared in the file
SelfContained(file) ==
    /\ \A k \in 1..Len(StoredInterface(file)) :
          TypeOf(StoredInterface(file)[k])
              \in BuiltinTypes \cup DeclaredEnums(file)
    /\ \A k \in 1..Len(InputInterface(file)) :
          TypeOf(InputInterface(file)[k])
              \in BuiltinTypes \cup DeclaredEnums(file)

\* no two Enum fields of the table have the same enum_set
DistinctEnumSets(t) ==
    \A m, n \in DOMAIN t.fields :
        (m # n /\ t.fields[m].datatype = "Enum"
               /\ t.fields[n].datatype = "Enum") =>
            t.fields[m].enum_set # t.fields[n].enum_set

\* C27: generated declarations are self-contained for enums. In the output
\* of TableDesign::export, every enum type name used as the type of a field
\* in the stored or input interface is declared by an `export enum` block in
\* the same output, including when two Enum fields of the table share an
\* identical enum_set.
C27_EnumsDeclared ==
    \A i \in 1..Len(exports) :
        exports[i].res.ok => SelfContained(files[exports[i].title])

\* C27 for the tables whose Enum fields have different enum_sets
C27_DistinctSets ==
    \A i \in 1..Len(exports) :
        (exports[i].res.ok
            /\ DistinctEnumSets(exported.tables[exports[i].title])) =>
            SelfContained(files[exports[i].title])

----------------------------------------------------------------------------
(* Titles that are declared more than once *)

\* the number of lines taken with the outcome "Ok" since the last
\* table-start line of the outcomes o
OkSinceTableStart(o) ==
    LET starts == {i \in 1..Len(o) : o[i] = "Table"}
        last == CHOOSE i \in starts : \A j \in starts : j <= i
    IN  Cardinality({j \in (last + 1)..Len(o) : o[j] = "Ok"})

C28_Reopened ==
    /\ lines_read = Some(ReopenSchema)
    /\ DOMAIN db.tables = {<<"u","s","e","r">>}
    /\ DOMAIN db.tables[<<"u","s","e","r">>].fields = {<<"e","m","a","i","l">>}

----------------------------------------------------------------------------
(* TableDesign::test with input = false and with input = true *)

\* what test returns for the table and the payload of the call with
\* input = false (the stored form) and with input = true (the input form):
\* one of them is the call made, the other the same call with the other flag
StoredOutcome ==
    IF input THEN TableDesignTest(table, payload, FALSE) ELSE TRes
InputOutcome ==
    IF input THEN TRes ELSE TableDesignTest(table, payload, TRUE)

\* the fields of the table that are required and generated and that no
\* payload object has
GeneratedAbsent ==
    {n \in DOMAIN table.fields :
        table.fields[n].required /\ table.fields[n].generated /\ Absent(n)}

\* C29: stored validation is at least as strict as input validation. For
\* every table and every payload, if TableDesign::test(payload, false)
\* succeeds then TableDesign::test(payload, true) succeeds, and the two
\* outcomes differ only when some field that is both required and generated
\* is absent from every payload object.
C29_StoredStricter ==
    tpc = "done" =>
        /\ TRes = TableDesignTest(table, payload, input)
        /\ StoredOutcome.ok => InputOutcome.ok
        /\ StoredOutcome # InputOutcome => GeneratedAbsent # {}

\* C29 witness: test has returned Ok with input = true for a payload that it
\* declines with input = false, for the absence of the required and
\* generated field a
C29_Witness ==
    /\ tpc = "done"
    /\ input
    /\ TRes.ok
    /\ ~StoredOutcome.ok
    /\ StoredOutcome.err.kind = "required"
    /\ GeneratedAbsent = {<<"a">>}
    /\ payload # <<>>

----------------------------------------------------------------------------
(* Fields that may be left out and are not *)

\* the table with every field neither required nor generated
Unflagged(t) ==
    [t EXCEPT !.fields = [n \in DOMAIN t.fields |->
                             [t.fields[n] EXCEPT !.required = FALSE,
                                                 !.generated = FALSE]]]

\* C30: optional does not mean unchecked. In TableDesign::test, a declared
\* field that is present in a payload object is always extracted, so a field
\* that is not required (or is generated, with is_input = true) but is
\* present with a value that fails extraction, such as JSON null, makes the
\* whole validation fail; the required/generated flags only affect fields
\* that are absent.
C30_PresentIsChecked ==
    tpc = "done" =>
        /\ \A n \in DOMAIN table.fields :
              (~Absent(n) /\ ~ExtractOf(FirstWith(n), n).ok) => ~TRes.ok
        /\ (\A n \in DOMAIN table.fields : ~Absent(n)) =>
              /\ TRes = TableDesignTest(Unflagged(table), payload, input)
              /\ TRes = TableDesignTest(table, payload, ~input)

\* C30 witness: the field a is not required, the first object of the
\* payload has null under a, and test has returned the error of extract
C30_Witness ==
    /\ tpc = "done"
    /\ DOMAIN table.fields = {<<"a">>}
    /\ ~table.fields[<<"a">>].required
    /\ payload # <<>>
    /\ HasField(1, <<"a">>)
    /\ payload[1].o[<<"a">>] = JNull
    /\ ~TRes.ok
    /\ TRes.err.kind # "required"

====
